---------------------------- MODULE Spec2Model ----------------------------
(***************************************************************************)
(* Dungeon generation (src/dungeon_gen.py) as a state machine.             *)
(*                                                                         *)
(* Numbers that are floats in the source (linearity, entropy, complexity)  *)
(* are carried as integer percentages: 40 stands for 0.4.  Every call of   *)
(* the random module is a nondeterministic choice over the values the call *)
(* can return; a randint over an empty range raises ValueError, as in      *)
(* CPython.  An exception leaves generate_dungeon through pc = "raised".   *)
(***************************************************************************)
EXTENDS Integers, Sequences, FiniteSets, TLC

(***************************************************************************)
(* Program constants                                                       *)
(***************************************************************************)
TILE_FLOOR == 0
TILE_WALL == 1
TILE_DOOR == 2

NO_DOOR == -1
DOOR_CLOSED == 0
DOOR_OPEN == 1
DOOR_LOCKED == 2

MAT_COBBLE == 0
MAT_BRICK == 1
MAT_IRON == 5
MAT_MARBLE == 9
MAT_WOOD == 10

MIN_LARGE_ROOM_WIDTH == 6
MIN_LARGE_ROOM_HEIGHT == 4
MAX_HALLWAY_SEGMENT == 18

MinHallwaySegment == 6
LinearAttempts == 20
BiasedAttempts == 50
RandomAttempts == 40
LinearSideAttempts == 10
BiasedSideAttempts == 8
RandomExtraAttempts == 30
NudgeRange == 3
RoomBuffer == 2
SpacePerRoomExtra == 8
ExpandMargin == 20
MaxExpanded == 250

(***************************************************************************)
(* Arithmetic helpers                                                      *)
(***************************************************************************)
Abs(a) == IF a < 0 THEN -a ELSE a
Max2(a, b) == IF a >= b THEN a ELSE b
Min2(a, b) == IF a <= b THEN a ELSE b
Sign(a) == IF a > 0 THEN 1 ELSE IF a < 0 THEN -1 ELSE 0

\* Python int(n / d) for an integer n and d > 0: truncation toward zero.
TruncDiv(n, d) == IF n >= 0 THEN n \div d ELSE -((-n) \div d)

\* math.ceil(n / 2) for n >= 0
CeilHalf(n) == (n + 1) \div 2

\* random.randint(lo, hi): the values it can return; empty when it raises.
RandInt(lo, hi) == lo..hi

\* int(round(n / d)), d > 0.  round() goes to the nearest integer; when n/d
\* lies exactly half way the float product of the source may fall on either
\* side, so both neighbours are possible outcomes.
RoundDiv(n, d) ==
    LET q == n \div d
        r == n - q * d
    IN  IF 2 * r < d THEN {q}
        ELSE IF 2 * r > d THEN {q + 1}
        ELSE {q, q + 1}

(***************************************************************************)
(* Rect                                                                    *)
(***************************************************************************)
Rect(x, y, rw, rh) == [x1 |-> x, y1 |-> y, x2 |-> x + rw, y2 |-> y + rh]

Center(r) == << (r.x1 + r.x2) \div 2, (r.y1 + r.y2) \div 2 >>

\* a variant of intersect that compares the rectangles less their last row
\* and column
IntersectInner(a, b) ==
    /\ a.x1 < b.x2 - 1 /\ a.x2 - 1 > b.x1
    /\ a.y1 < b.y2 - 1 /\ a.y2 - 1 > b.y1

\* Rect.intersect

Intersect(a, b) ==
    /\ a.x1 < b.x2 /\ a.x2 > b.x1
    /\ a.y1 < b.y2 /\ a.y2 > b.y1

Buffered(r) ==
    Rect(r.x1 - RoomBuffer, r.y1 - RoomBuffer,
         (r.x2 - r.x1) + 2 * RoomBuffer, (r.y2 - r.y1) + 2 * RoomBuffer)

\* the tiles carve_room turns into floor: the rectangle less a 1-tile border
InInterior(r, x, y) ==
    /\ r.x1 + 1 <= x /\ x <= r.x2 - 2
    /\ r.y1 + 1 <= y /\ y <= r.y2 - 2


(***************************************************************************)
(* State                                                                   *)
(***************************************************************************)
VARIABLES
    args,                      \* the arguments of generate_dungeon
    call,                      \* the arguments of a direct call of a Dungeon method
    rng,                       \* the state of the process-wide generator of `random`
    w, h,                      \* Dungeon.w, Dungeon.h
    tiles, materials, doors,   \* Dungeon grids, indexed by <<x, y>>
    rooms,                     \* Dungeon.rooms, a sequence of Rect
    start_room_index, throne_room_index,
    rooms_total, rooms_large,  \* Dungeon._rooms_total, Dungeon._rooms_large
    max_rooms_planned,         \* Dungeon._max_rooms_planned (max_rooms)
    large_width_requirement, large_height_requirement,
    enforce_large_rooms,
    max_hallway_segment,
    pc,                        \* position inside generate_dungeon
    loc,                       \* loop variables of the running loop
    door_candidates,           \* the list built by the scan of generate
    raised,                    \* the exception that left generate_dungeon
    pre_door_tiles             \* history: tiles when the door pass began

dungeonVars == << w, h, tiles, materials, doors, rooms, start_room_index,
                  throne_room_index, rooms_total, rooms_large,
                  max_rooms_planned, large_width_requirement,
                  large_height_requirement, enforce_large_rooms,
                  max_hallway_segment >>

inputVars == << args, call, rng >>

vars == << inputVars, dungeonVars, pc, loc, door_candidates, raised,
           pre_door_tiles >>

Cells(gw, gh) == (0..(gw - 1)) \X (0..(gh - 1))

InBounds(x, y) == 0 <= x /\ x < w /\ 0 <= y /\ y < h

(***************************************************************************)
(* Carve primitives: what the grids look like after the call               *)
(***************************************************************************)
\* the in-bounds tiles carve_room(r) writes: the rectangle less a 1-tile border
RoomCells(r) ==
    (Max2(r.x1 + 1, 0)..Min2(r.x2 - 2, w - 1))
       \X (Max2(r.y1 + 1, 0)..Min2(r.y2 - 2, h - 1))

\* the in-bounds tiles of the whole rectangle r
RectCells(r) ==
    (Max2(r.x1, 0)..Min2(r.x2 - 1, w - 1)) \X (Max2(r.y1, 0)..Min2(r.y2 - 1, h - 1))

\* a tunnel call: carve_h_tunnel(a, b, c) when horiz, else carve_v_tunnel(a, b, c)
Tunnel(horiz, a, b, c) == [horiz |-> horiz, a |-> a, b |-> b, c |-> c]

\* the in-bounds tiles one tunnel call writes
TunnelCells(s) ==
    IF s.horiz
    THEN IF 0 <= s.c /\ s.c < h
         THEN {<< x, s.c >> : x \in Max2(Min2(s.a, s.b), 0)..Min2(Max2(s.a, s.b), w - 1)}
         ELSE {}
    ELSE IF 0 <= s.c /\ s.c < w
         THEN {<< s.c, y >> : y \in Max2(Min2(s.a, s.b), 0)..Min2(Max2(s.a, s.b), h - 1)}
         ELSE {}

CorridorCells(segs) == UNION {TunnelCells(segs[k]) : k \in 1..Len(segs)}

\* grid f with value v written to the tiles of S
Paint(f, S, v) == [p \in S |-> v] @@ f

(***************************************************************************)
(* Large-room quota                                                        *)
(***************************************************************************)
IsLargeRoom(r) ==
    /\ r.x2 - r.x1 >= large_width_requirement
    /\ r.y2 - r.y1 >= large_height_requirement

\* a variant of _should_force_large_room whose target leaves out the room
\* about to be placed
ShouldForceLargeRoomLate ==
    /\ enforce_large_rooms
    /\ rooms_large < CeilHalf(rooms_total)

\* _should_force_large_room
ShouldForceLargeRoom ==
    /\ enforce_large_rooms
    /\ rooms_large < CeilHalf(rooms_total + 1)

\* a variant of _pick_room_size that returns its first sample unconditionally
PickRoomSizeUnforced(room_min, room_max) ==
    RandInt(room_min, room_max) \X RandInt(room_min, room_max)

\* the (w, h) pairs _pick_room_size can return
PickRoomSize(room_min, room_max) ==
    LET force == ShouldForceLargeRoom /\ enforce_large_rooms
        samples == RandInt(room_min, room_max) \X RandInt(room_min, room_max)
        Accepted(s) == \/ ~force
                       \/ /\ s[1] >= large_width_requirement
                          /\ s[2] >= large_height_requirement
        fallback == << Min2(room_max, Max2(room_min, large_width_requirement)),
                       Min2(room_max, Max2(room_min, large_height_requirement)) >>
    IN  {s \in samples : Accepted(s)}
          \cup (IF \E s \in samples : ~Accepted(s) THEN {fallback} ELSE {})

\* random.randint(room_min, room_max) raises ValueError on an empty range
PickRoomSizeRaises(room_min, room_max) == room_min > room_max

(***************************************************************************)
(* Corridors                                                               *)
(***************************************************************************)
\* one waypoint, the end, however far it is
AxisStepsWhole(start, end, seg) == IF start = end THEN << >> ELSE << end >>

\* _axis_steps(start, end), with seg = self._max_hallway_segment
RECURSIVE AxisSteps(_, _, _)
AxisSteps(start, end, seg) ==
    IF start = end THEN << >>
    ELSE LET delta == end - start
         IN  IF Abs(delta) <= seg
             THEN << end >>
             ELSE LET step == IF delta > 0 THEN seg ELSE -seg
                  IN  << start + step >> \o AxisSteps(start + step, end, seg)

\* the tunnel calls a run of waypoints issues, from `from` along one axis
TunnelRun(horiz, from, pts, fixed) ==
    [k \in 1..Len(pts) |->
        Tunnel(horiz, IF k = 1 THEN from ELSE pts[k - 1], pts[k], fixed)]

\* the tunnel calls of _carve_corridor(start, end, horizontal_first), in order
CarveCorridor(start, end, horizontal_first) ==
    LET sx == start[1]
        sy == start[2]
        ex == end[1]
        ey == end[2]
        xs == AxisSteps(sx, ex, max_hallway_segment)
        ys == AxisSteps(sy, ey, max_hallway_segment)
    IN  IF horizontal_first
        THEN TunnelRun(TRUE, sx, xs, sy) \o TunnelRun(FALSE, sy, ys, ex)
        ELSE TunnelRun(FALSE, sy, ys, sx) \o TunnelRun(TRUE, sx, xs, ey)

RECURSIVE ClampToLimit(_, _, _)
ClampToLimit(ndx, ndy, limit) ==
    IF Abs(ndx) + Abs(ndy) <= limit THEN << ndx, ndy >>
    ELSE IF Abs(ndx) >= Abs(ndy) /\ ndx # 0
         THEN ClampToLimit(ndx - Sign(ndx), ndy, limit)
         ELSE IF ndy # 0
              THEN ClampToLimit(ndx, ndy - Sign(ndy), limit)
              ELSE << ndx, ndy >>

\* the points _limit_center_distance(anchor, candidate) can return
LimitCenterDistance(anchor, candidate) ==
    LET dx == candidate[1] - anchor[1]
        dy == candidate[2] - anchor[2]
        limit == Max2(1, max_hallway_segment)
        total == Max2(1, Abs(dx) + Abs(dy))
        Fix(n, d) == IF n = 0 /\ d # 0 THEN Sign(d) ELSE n
    IN  IF Abs(dx) + Abs(dy) <= limit THEN {candidate}
        ELSE { << anchor[1] + c[1], anchor[2] + c[2] >> :
                 c \in { ClampToLimit(Fix(rx, dx), Fix(ry, dy), limit) :
                           rx \in RoundDiv(dx * limit, total),
                           ry \in RoundDiv(dy * limit, total) } }

\* the rectangle centred on (cx, cy) as it is, without the clamp
CentredRect(cx, cy, rw, rh) == Rect(cx - rw \div 2, cy - rh \div 2, rw, rh)

\* Rect(x, y, w, h) with the top-left corner clamped into the grid
ClampedRect(cx, cy, rw, rh) ==
    Rect(Max2(1, Min2(w - rw - 1, cx - rw \div 2)),
         Max2(1, Min2(h - rh - 1, cy - rh \div 2)), rw, rh)

OverlapsBuffered(r) == \E k \in 1..Len(rooms) : Intersect(r, Buffered(rooms[k]))

OverlapsAny(r) == \E k \in 1..Len(rooms) : Intersect(r, rooms[k])


(***************************************************************************)
(* Doors and the throne room                                               *)
(***************************************************************************)
FindRoomContaining(x, y) == {k \in 1..Len(rooms) : InInterior(rooms[k], x, y)}

IsRoomEntrance(t, x, y) ==
    LET Neighbours == {<< x, y + 1 >>, << x, y - 1 >>, << x + 1, y >>, << x - 1, y >>}
        FloorAt(n) == InBounds(n[1], n[2]) /\ t[n] = TILE_FLOOR
    IN  /\ t[<< x, y >>] = TILE_WALL
        /\ \E n \in Neighbours : FloorAt(n) /\ FindRoomContaining(n[1], n[2]) # {}
        /\ \E n \in Neighbours : FloorAt(n) /\ FindRoomContaining(n[1], n[2]) = {}

\* the scan of generate: rows top to bottom, each row left to right
ScanCell(k) == << 1 + ((k - 1) % (w - 2)), 1 + ((k - 1) \div (w - 2)) >>

DoorCandidates(t) ==
    IF w < 3 \/ h < 3 THEN << >>
    ELSE SelectSeq([k \in 1..((w - 2) * (h - 2)) |-> ScanCell(k)],
                   LAMBDA c : IsRoomEntrance(t, c[1], c[2]))

\* a variant of add_door that does not look at the walls beside the passage
AddDoorAcceptsFloorSides(t, x, y) ==
    /\ 0 < x /\ x < w - 1 /\ 0 < y /\ y < h - 1
    /\ t[<< x, y >>] = TILE_WALL
    /\ \/ t[<< x - 1, y >>] = TILE_FLOOR /\ t[<< x + 1, y >>] = TILE_FLOOR
       \/ t[<< x, y - 1 >>] = TILE_FLOOR /\ t[<< x, y + 1 >>] = TILE_FLOOR

\* add_door(x, y) returns True
AddDoorAccepts(t, x, y) ==
    /\ 0 < x /\ x < w - 1 /\ 0 < y /\ y < h - 1
    /\ t[<< x, y >>] = TILE_WALL
    /\ \/ /\ t[<< x - 1, y >>] = TILE_FLOOR /\ t[<< x + 1, y >>] = TILE_FLOOR
          /\ t[<< x, y - 1 >>] = TILE_WALL /\ t[<< x, y + 1 >>] = TILE_WALL
       \/ /\ t[<< x, y - 1 >>] = TILE_FLOOR /\ t[<< x, y + 1 >>] = TILE_FLOOR
          /\ t[<< x - 1, y >>] = TILE_WALL /\ t[<< x + 1, y >>] = TILE_WALL

\* materials after _setup_throne_room recoloured room r
ThroneMaterials(m, t, r) ==
    Paint(Paint(m, {p \in RoomCells(r) : t[p] = TILE_FLOOR}, MAT_MARBLE),
          {p \in RectCells(r) : t[p] = TILE_WALL}, MAT_IRON)

IsThroneRoom(room_index) == room_index = throne_room_index /\ throne_room_index >= 0

(***************************************************************************)
(* generate_dungeon, step by step                                          *)
(***************************************************************************)
\* links counts the corridors the extra-link loop has carved
NoLoc == [i |-> 0, attempts |-> 0, target |-> 0, left |-> 0, main |-> 0, k |-> 0,
          links |-> 0]

Horizontal == w > h
Along == IF Horizontal THEN w ELSE h
Cross == IF Horizontal THEN h ELSE w

Raise(exc) ==
    /\ pc' = "raised"
    /\ raised' = exc
    /\ loc' = NoLoc
    /\ UNCHANGED << inputVars, dungeonVars, door_candidates, pre_door_tiles >>

\* carve_room(r), then the tunnel calls segs, then _register_room(r)
PlaceRoom(r, segs) ==
    /\ tiles' = Paint(tiles, RoomCells(r) \cup CorridorCells(segs), TILE_FLOOR)
    /\ materials' = Paint(materials, RoomCells(r) \cup CorridorCells(segs), MAT_COBBLE)
    /\ rooms' = Append(rooms, r)
    /\ rooms_total' = rooms_total + 1
    /\ rooms_large' = IF IsLargeRoom(r) THEN rooms_large + 1 ELSE rooms_large
    /\ UNCHANGED << w, h, doors, start_room_index, throne_room_index,
                    max_rooms_planned, large_width_requirement,
                    large_height_requirement, enforce_large_rooms,
                    max_hallway_segment >>

CarveOnly(segs) ==
    /\ tiles' = Paint(tiles, CorridorCells(segs), TILE_FLOOR)
    /\ materials' = Paint(materials, CorridorCells(segs), MAT_COBBLE)
    /\ UNCHANGED << w, h, doors, rooms, start_room_index, throne_room_index,
                    rooms_total, rooms_large, max_rooms_planned,
                    large_width_requirement, large_height_requirement,
                    enforce_large_rooms, max_hallway_segment >>

\* the first lines of generate_dungeon, Dungeon.__init__ and the head of generate
Construct ==
    /\ pc = "call"
    /\ LET max_rooms == Max2(1, args.length)
           needed == max_rooms * (args.room_max + SpacePerRoomExtra)
           expand == args.linearity >= 50
           wide == args.width > args.height
           width == IF expand /\ wide /\ args.width < needed
                    THEN Min2(MaxExpanded, needed + ExpandMargin) ELSE args.width
           height == IF expand /\ ~wide /\ args.height < needed
                     THEN Min2(MaxExpanded, needed + ExpandMargin) ELSE args.height
           lw == Max2(MIN_LARGE_ROOM_WIDTH, args.room_min)
           lh == Max2(MIN_LARGE_ROOM_HEIGHT, args.room_min)
       IN  /\ w' = width
           /\ h' = height
           /\ tiles' = [p \in Cells(width, height) |-> TILE_WALL]
           /\ materials' = [p \in Cells(width, height) |-> MAT_BRICK]
           /\ doors' = [p \in Cells(width, height) |-> NO_DOOR]
           /\ rooms' = << >>
           /\ start_room_index' = 0
           /\ throne_room_index' = -1
           /\ rooms_total' = 0
           /\ rooms_large' = 0
           /\ max_rooms_planned' = max_rooms
           /\ large_width_requirement' = lw
           /\ large_height_requirement' = lh
           /\ enforce_large_rooms' = (args.room_max >= lw /\ args.room_max >= lh)
           /\ max_hallway_segment' =
                 Max2(MinHallwaySegment, Min2(MAX_HALLWAY_SEGMENT, Max2(width, height)))
           /\ pc' = IF args.linearity >= 80 THEN "linear_head"
                    ELSE IF args.linearity >= 40
                         THEN IF args.entropy <= 0 THEN "chain" ELSE "biased_try"
                         ELSE IF args.entropy <= 0 THEN "chain" ELSE "random_try"
    /\ loc' = NoLoc
    /\ UNCHANGED << inputVars, door_candidates, raised, pre_door_tiles >>


(***************************************************************************)
(* _generate_linear                                                        *)
(***************************************************************************)
LinearSegment ==
    Min2(Max2(args.room_max + 4, Along \div max_rooms_planned),
         max_hallway_segment + args.room_max \div 2 + 2)

LinearBase == Cross \div 2

LinearVariation == Min2(Cross \div 3, args.room_max * 2)

\* int(variation * (0.5 - 0.5 * random.random())), random() in [0, 1)
LinearOffsets(variation) ==
    IF variation >= 0 THEN 0..(variation \div 2) ELSE (-((-variation) \div 2))..0

\* a point (along, cross) of the main axis as (x, y)
AxisPoint(along, cross) ==
    IF Horizontal THEN << along, cross >> ELSE << cross, along >>

\* where the candidate centre may end up relative to the last room
LimitedToLastRoom(candidate) ==
    IF Len(rooms) > 0
    THEN LimitCenterDistance(Center(rooms[Len(rooms)]), candidate)
    ELSE {candidate}

\* loop head of the main progression: next room, or leave the loop
LinearHead ==
    /\ pc = "linear_head"
    /\ IF \/ loc.i >= max_rooms_planned
          \/ LinearSegment * (loc.i + 1) >= Along - args.room_max
       THEN /\ pc' = "linear_connect"
            /\ loc' = [NoLoc EXCEPT !.i = 1]
       ELSE \E off \in LinearOffsets(LinearVariation) :
               /\ pc' = "linear_try"
               /\ loc' = [loc EXCEPT !.attempts = 0, !.target = LinearBase + off]
    /\ UNCHANGED << inputVars, dungeonVars, door_candidates, raised, pre_door_tiles >>

\* the rectangles one pass of the placement loop can propose
LinearTryRooms ==
    UNION { { ClampedRect(c[1], c[2], s[1], s[2]) :
                c \in LimitedToLastRoom(AxisPoint(LinearSegment * (loc.i + 1), loc.target)) } :
            s \in PickRoomSize(args.room_min, args.room_max) }

\* one pass of `while attempts < 20 and not placed`
LinearTry ==
    /\ pc = "linear_try"
    /\ IF PickRoomSizeRaises(args.room_min, args.room_max)
       THEN Raise("ValueError")
       ELSE \/ \E new_room \in {r \in LinearTryRooms : ~OverlapsBuffered(r)} :
                  /\ PlaceRoom(new_room, << >>)
                  /\ pc' = "linear_head"
                  /\ loc' = [NoLoc EXCEPT !.i = loc.i + 1]
                  /\ UNCHANGED << inputVars, door_candidates, raised, pre_door_tiles >>
            \/ /\ {r \in LinearTryRooms : OverlapsBuffered(r)} # {}
               /\ \E nudge \in RandInt(-NudgeRange, NudgeRange) :
                     IF loc.attempts + 1 < LinearAttempts
                     THEN /\ pc' = pc
                          /\ loc' = [loc EXCEPT
                                       !.attempts = @ + 1,
                                       !.target = Max2(args.room_max,
                                                       Min2(Cross - args.room_max, @ + nudge))]
                     ELSE /\ pc' = "linear_head"
                          /\ loc' = [NoLoc EXCEPT !.i = loc.i + 1]
               /\ UNCHANGED << inputVars, dungeonVars, door_candidates, raised, pre_door_tiles >>

\* the orientation _generate_linear gives the corridor between two centres
LinearHorizontalFirst(prev, curr) ==
    LET x_diff == Abs(prev[1] - curr[1])
        y_diff == Abs(prev[2] - curr[2])
    IN  IF x_diff <= 3 /\ y_diff > x_diff * 2 THEN FALSE
        ELSE IF y_diff <= 3 /\ x_diff > y_diff * 2 THEN TRUE
        ELSE x_diff >= y_diff

\* int(entropy * n * factor), factor in tenths
SideRoomCount(n, tenths) == TruncDiv(args.entropy * n * tenths, 1000)

\* `for i in range(1, len(self.rooms))`: one corridor, or on to the side rooms
LinearConnect ==
    /\ pc = "linear_connect"
    /\ IF loc.i < Len(rooms)
       THEN LET prev == Center(rooms[loc.i])
                curr == Center(rooms[loc.i + 1])
            IN  /\ CarveOnly(CarveCorridor(prev, curr, LinearHorizontalFirst(prev, curr)))
                /\ pc' = pc
                /\ loc' = [loc EXCEPT !.i = @ + 1]
       ELSE /\ IF args.entropy > 0 /\ Len(rooms) > 0
               THEN /\ pc' = "linear_side_head"
                    /\ loc' = [NoLoc EXCEPT !.left = SideRoomCount(Len(rooms), 15)]
               ELSE /\ pc' = "throne"
                    /\ loc' = NoLoc
            /\ UNCHANGED dungeonVars
    /\ UNCHANGED << inputVars, door_candidates, raised, pre_door_tiles >>

\* `for _ in range(side_room_count)`: pick the room to branch off from
LinearSideHead ==
    /\ pc = "linear_side_head"
    /\ IF loc.left <= 0
       THEN pc' = "throne" /\ loc' = NoLoc
       ELSE \E m \in 1..Len(rooms) :
               /\ pc' = "linear_side_try"
               /\ loc' = [loc EXCEPT !.main = m, !.attempts = 0]
    /\ UNCHANGED << inputVars, dungeonVars, door_candidates, raised, pre_door_tiles >>

\* the rectangles one pass of the side-room loop can propose
LinearSideRooms ==
    LET main_center == Center(rooms[loc.main])
        max_side_distance ==
           Max2(args.room_min + 2, Min2(max_hallway_segment, args.room_max * 2 + 5))
        Sides == { IF Horizontal
                   THEN << main_center[1] + d[3], main_center[2] + d[1] * d[2] >>
                   ELSE << main_center[1] + d[1] * d[2], main_center[2] + d[3] >> :
                   d \in {-1, 1} \X RandInt(args.room_min + 2, max_side_distance)
                                \X RandInt(-args.room_max, args.room_max) }
        Centres == UNION { LimitCenterDistance(main_center, side) : side \in Sides }
    IN  { ClampedRect(c[1], c[2], s[1], s[2]) :
            c \in Centres, s \in PickRoomSize(args.room_min, args.room_max) }

\* one pass of `for attempt in range(10)`
LinearSideTry ==
    /\ pc = "linear_side_try"
    /\ IF \/ RandInt(-args.room_max, args.room_max) = {}
          \/ PickRoomSizeRaises(args.room_min, args.room_max)
       THEN Raise("ValueError")
       ELSE \/ \E side_room \in {r \in LinearSideRooms : ~OverlapsBuffered(r)} :
                  /\ PlaceRoom(side_room,
                        CarveCorridor(Center(rooms[loc.main]), Center(side_room), Horizontal))
                  /\ pc' = "linear_side_head"
                  /\ loc' = [NoLoc EXCEPT !.left = loc.left - 1]
                  /\ UNCHANGED << inputVars, door_candidates, raised, pre_door_tiles >>
            \/ /\ {r \in LinearSideRooms : OverlapsBuffered(r)} # {}
               /\ IF loc.attempts + 1 < LinearSideAttempts
                  THEN pc' = pc /\ loc' = [loc EXCEPT !.attempts = @ + 1]
                  ELSE /\ pc' = "linear_side_head"
                       /\ loc' = [NoLoc EXCEPT !.left = loc.left - 1]
               /\ UNCHANGED << inputVars, dungeonVars, door_candidates, raised, pre_door_tiles >>

(***************************************************************************)
(* _generate_biased_linear, entropy <= 0: the single chain                 *)
(***************************************************************************)
ChainSegment ==
    Min2(Max2(args.room_max + 2, Along \div max_rooms_planned),
         max_hallway_segment + args.room_max \div 2 + 2)

\* int((1.0 - linearity) * min(cross // 4, room_max))
ChainVariation ==
    TruncDiv((100 - args.linearity) * Min2(Cross \div 4, args.room_max), 100)

\* the rectangles one pass of the chain loop can propose
ChainRooms ==
    LET Centres == UNION { LimitedToLastRoom(
                              AxisPoint(ChainSegment * (loc.i + 1), LinearBase + off)) :
                           off \in RandInt(-ChainVariation, ChainVariation) }
    IN  { ClampedRect(c[1], c[2], s[1], s[2]) :
            c \in Centres, s \in PickRoomSize(args.room_min, args.room_max) }

\* one pass of `for i in range(max_rooms)`: a single placement attempt
Chain ==
    /\ pc = "chain"
    /\ IF \/ loc.i >= max_rooms_planned
          \/ ChainSegment * (loc.i + 1) >= Along - args.room_max
       THEN /\ pc' = "throne"
            /\ loc' = NoLoc
            /\ UNCHANGED << inputVars, dungeonVars, door_candidates, raised, pre_door_tiles >>
       ELSE IF \/ RandInt(-ChainVariation, ChainVariation) = {}
               \/ PickRoomSizeRaises(args.room_min, args.room_max)
            THEN Raise("ValueError")
            ELSE /\ \/ \E new_room \in {r \in ChainRooms : ~OverlapsAny(r)} :
                          PlaceRoom(new_room,
                             IF Len(rooms) > 0
                             THEN CarveCorridor(Center(rooms[Len(rooms)]),
                                                Center(new_room), Horizontal)
                             ELSE << >>)
                    \/ /\ {r \in ChainRooms : OverlapsAny(r)} # {}
                       /\ UNCHANGED dungeonVars
                 /\ pc' = pc
                 /\ loc' = [loc EXCEPT !.i = @ + 1]
                 /\ UNCHANGED << inputVars, door_candidates, raised, pre_door_tiles >>

(***************************************************************************)
(* _generate_biased_linear, entropy > 0                                    *)
(***************************************************************************)
\* int((1 - bias_strength) * extent // 3), bias_strength = (linearity - 0.4) / 0.4
BiasedVariance(extent) == ((80 - args.linearity) * extent) \div 120

\* int(progress * span) + 1, progress = len(rooms) / max_rooms
BiasedIdeal(span) == TruncDiv(Len(rooms) * span, max_rooms_planned) + 1

\* the top-left corners one attempt can draw for a room of size rw x rh
BiasedDrawX(rw) ==
    IF Len(rooms) = 0
    THEN IF Horizontal THEN RandInt(1, w \div 3) ELSE RandInt(1, Max2(1, w - rw - 1))
    ELSE IF Horizontal
         THEN RandInt(Max2(1, BiasedIdeal(w - rw - 2) - BiasedVariance(w)),
                      Min2(w - rw - 1, BiasedIdeal(w - rw - 2) + BiasedVariance(w)))
         ELSE RandInt(1, Max2(1, w - rw - 1))

BiasedDrawY(rh) ==
    IF Len(rooms) = 0
    THEN IF Horizontal THEN RandInt(1, Max2(1, h - rh - 1)) ELSE RandInt(1, h \div 3)
    ELSE IF Horizontal
         THEN RandInt(1, Max2(1, h - rh - 1))
         ELSE RandInt(Max2(1, BiasedIdeal(h - rh - 2) - BiasedVariance(h)),
                      Min2(h - rh - 1, BiasedIdeal(h - rh - 2) + BiasedVariance(h)))

\* some size draws a position range that is empty: randint raises
BiasedDrawRaises ==
    \E s \in PickRoomSize(args.room_min, args.room_max) :
        BiasedDrawX(s[1]) = {} \/ BiasedDrawY(s[2]) = {}

\* the rectangles one pass of the placement loop can propose
BiasedTryRooms ==
    UNION { UNION { { ClampedRect(c[1], c[2], s[1], s[2]) :
                        c \in LimitedToLastRoom(<< p[1] + s[1] \div 2, p[2] + s[2] \div 2 >>) } :
                    p \in BiasedDrawX(s[1]) \X BiasedDrawY(s[2]) } :
            s \in PickRoomSize(args.room_min, args.room_max) }

\* one pass of `while attempts < 50 and not placed`, and the step to the next room
BiasedTry ==
    /\ pc = "biased_try"
    /\ LET NextRoom == IF loc.i + 1 < max_rooms_planned
                       THEN pc' = pc /\ loc' = [NoLoc EXCEPT !.i = loc.i + 1]
                       ELSE pc' = "biased_connect" /\ loc' = [NoLoc EXCEPT !.i = 1]
       IN  IF PickRoomSizeRaises(args.room_min, args.room_max)
           THEN Raise("ValueError")
           ELSE \/ BiasedDrawRaises /\ Raise("ValueError")
                \/ \E new_room \in {r \in BiasedTryRooms : ~OverlapsAny(r)} :
                      /\ PlaceRoom(new_room, << >>)
                      /\ NextRoom
                      /\ UNCHANGED << inputVars, door_candidates, raised, pre_door_tiles >>
                \/ /\ {r \in BiasedTryRooms : OverlapsAny(r)} # {}
                   /\ IF loc.attempts + 1 < BiasedAttempts
                      THEN pc' = pc /\ loc' = [loc EXCEPT !.attempts = @ + 1]
                      ELSE NextRoom
                   /\ UNCHANGED << inputVars, dungeonVars, door_candidates, raised, pre_door_tiles >>

\* the outcomes of `random.random() < p`, p in hundredths
Chance(p100) == (IF p100 > 0 THEN {TRUE} ELSE {}) \cup (IF p100 < 100 THEN {FALSE} ELSE {})

\* `for i in range(1, len(self.rooms))` of the biased regime
BiasedConnect ==
    /\ pc = "biased_connect"
    /\ IF loc.i < Len(rooms)
       THEN \E straight \in Chance(50 + (3 * (args.linearity - 40)) \div 4) :
               /\ CarveOnly(CarveCorridor(Center(rooms[loc.i]), Center(rooms[loc.i + 1]),
                                          IF straight THEN Horizontal ELSE ~Horizontal))
               /\ pc' = pc
               /\ loc' = [loc EXCEPT !.i = @ + 1]
       ELSE /\ IF args.entropy > 0 /\ Len(rooms) > 1
               THEN /\ pc' = "biased_side_head"
                    /\ loc' = [NoLoc EXCEPT !.left = SideRoomCount(Len(rooms), 12)]
               ELSE /\ pc' = "throne"
                    /\ loc' = NoLoc
            /\ UNCHANGED dungeonVars
    /\ UNCHANGED << inputVars, door_candidates, raised, pre_door_tiles >>

BiasedSideHead ==
    /\ pc = "biased_side_head"
    /\ IF loc.left <= 0
       THEN pc' = "throne" /\ loc' = NoLoc
       ELSE \E m \in 1..Len(rooms) :
               /\ pc' = "biased_side_try"
               /\ loc' = [loc EXCEPT !.main = m, !.attempts = 0]
    /\ UNCHANGED << inputVars, dungeonVars, door_candidates, raised, pre_door_tiles >>

\* the squared distances from c to the reals that int() truncates to p
TruncCellSq(c, p) ==
    LET a == IF p > 0 THEN p ELSE IF p = 0 THEN -1 ELSE p - 1
        b == IF p > 0 THEN p + 1 ELSE IF p = 0 THEN 1 ELSE p
        aIn == p > 0
        bIn == p < 0
    IN  IF c <= a
        THEN [lo |-> (a - c) * (a - c), hi |-> (b - c) * (b - c), loIn |-> aIn, hiIn |-> bIn]
        ELSE IF c >= b
             THEN [lo |-> (c - b) * (c - b), hi |-> (c - a) * (c - a), loIn |-> bIn, hiIn |-> aIn]
             ELSE [lo |-> 0, hi |-> 1, loIn |-> TRUE, hiIn |-> FALSE]

\* (int(cx + d*cos(angle)), int(cy + d*sin(angle))) over all angles: the
\* cells whose truncation region meets the circle of radius d around centre
AnglePoints(centre, d) ==
    { p \in ((centre[1] - d - 1)..(centre[1] + d + 1))
              \X ((centre[2] - d - 1)..(centre[2] + d + 1)) :
        LET sx == TruncCellSq(centre[1], p[1])
            sy == TruncCellSq(centre[2], p[2])
            lo == sx.lo + sy.lo
            hi == sx.hi + sy.hi
        IN  /\ lo < d * d \/ (lo = d * d /\ sx.loIn /\ sy.loIn)
            /\ d * d < hi \/ (d * d = hi /\ sx.hiIn /\ sy.hiIn) }

\* the rectangles one pass of the side-room loop can propose
BiasedSideRooms ==
    LET main_center == Center(rooms[loc.main])
        Sides == UNION { AnglePoints(main_center, distance) :
                         distance \in RandInt(args.room_max + 2, args.room_max * 2) }
        Centres == UNION { LimitCenterDistance(main_center, side) : side \in Sides }
    IN  { ClampedRect(c[1], c[2], s[1], s[2]) :
            c \in Centres, s \in PickRoomSize(args.room_min, args.room_max) }

\* one pass of `for attempt in range(8)`
BiasedSideTry ==
    /\ pc = "biased_side_try"
    /\ IF \/ RandInt(args.room_max + 2, args.room_max * 2) = {}
          \/ PickRoomSizeRaises(args.room_min, args.room_max)
       THEN Raise("ValueError")
       ELSE LET proposed == BiasedSideRooms
                fits == {r \in proposed : ~OverlapsAny(r)}
            IN  \/ \E side_room \in fits :
                   \E horizontal_first \in Chance(50) :
                      /\ PlaceRoom(side_room,
                            CarveCorridor(Center(rooms[loc.main]), Center(side_room),
                                          horizontal_first))
                      /\ pc' = "biased_side_head"
                      /\ loc' = [NoLoc EXCEPT !.left = loc.left - 1]
                      /\ UNCHANGED << inputVars, door_candidates, raised, pre_door_tiles >>
                \/ /\ {r \in proposed : OverlapsAny(r)} # {}
                   /\ IF loc.attempts + 1 < BiasedSideAttempts
                      THEN pc' = pc /\ loc' = [loc EXCEPT !.attempts = @ + 1]
                      ELSE /\ pc' = "biased_side_head"
                           /\ loc' = [NoLoc EXCEPT !.left = loc.left - 1]
                   /\ UNCHANGED << inputVars, dungeonVars, door_candidates, raised, pre_door_tiles >>

(***************************************************************************)
(* _generate_random, entropy > 0                                           *)
(***************************************************************************)
\* random.random() < h_then_v_prob, h_then_v_prob = 0.5 + linearity * 0.25
HThenV == Chance(50 + args.linearity \div 4)

Manhattan(a, b) == Abs(a[1] - b[1]) + Abs(a[2] - b[2])

\* min(self.rooms, key = Manhattan distance of the centre to point): the
\* first room of the list at the least distance
NearestRoom(point) ==
    CHOOSE k \in 1..Len(rooms) :
        \A j \in 1..Len(rooms) :
            \/ Manhattan(Center(rooms[k]), point) < Manhattan(Center(rooms[j]), point)
            \/ /\ Manhattan(Center(rooms[k]), point) = Manhattan(Center(rooms[j]), point)
               /\ k <= j

\* the room the centre of a new room is kept close to: the last room in
\* the main loop, the nearest room in the extra-room loop
Anchor(nearest, point) == IF nearest THEN NearestRoom(point) ELSE Len(rooms)

\* the rectangles a random draw can propose
RandomRooms(nearest) ==
    UNION { UNION { IF Len(rooms) > 0
                    THEN { ClampedRect(c[1], c[2], s[1], s[2]) :
                             c \in LimitCenterDistance(
                                      Center(rooms[Anchor(nearest,
                                                          << p[1] + s[1] \div 2,
                                                             p[2] + s[2] \div 2 >>)]),
                                      << p[1] + s[1] \div 2, p[2] + s[2] \div 2 >>) }
                    ELSE { Rect(p[1], p[2], s[1], s[2]) } :
                    p \in RandInt(1, Max2(1, w - s[1] - 2))
                            \X RandInt(1, Max2(1, h - s[2] - 2)) } :
            s \in PickRoomSize(args.room_min, args.room_max) }

\* one pass of `for attempt in range(40)`, and the step to the next room
RandomTry ==
    /\ pc = "random_try"
    /\ LET NextRoom ==
              IF loc.i + 1 < max_rooms_planned
              THEN pc' = pc /\ loc' = [NoLoc EXCEPT !.i = loc.i + 1]
              ELSE IF args.entropy > 0 /\ Len(rooms') > 0
                   THEN /\ pc' = "random_extra"
                        /\ loc' = [NoLoc EXCEPT !.left = SideRoomCount(max_rooms_planned, 8)]
                   ELSE pc' = "throne" /\ loc' = NoLoc
       IN  IF PickRoomSizeRaises(args.room_min, args.room_max)
           THEN Raise("ValueError")
           ELSE \/ \E new_room \in {r \in RandomRooms(FALSE) : ~OverlapsAny(r)} :
                   \E horizontal_first \in HThenV :
                      /\ PlaceRoom(new_room,
                            IF Len(rooms) > 0
                            THEN CarveCorridor(Center(rooms[Len(rooms)]),
                                               Center(new_room), horizontal_first)
                            ELSE << >>)
                      /\ NextRoom
                      /\ UNCHANGED << inputVars, door_candidates, raised, pre_door_tiles >>
                \/ /\ {r \in RandomRooms(FALSE) : OverlapsAny(r)} # {}
                   /\ UNCHANGED dungeonVars
                   /\ IF loc.attempts + 1 < RandomAttempts
                      THEN pc' = pc /\ loc' = [loc EXCEPT !.attempts = @ + 1]
                      ELSE NextRoom
                   /\ UNCHANGED << inputVars, door_candidates, raised, pre_door_tiles >>

\* one pass of `for attempt in range(30)` of the extra rooms
RandomExtra ==
    /\ pc = "random_extra"
    /\ LET NextExtra == /\ pc' = pc
                        /\ loc' = [NoLoc EXCEPT !.left = loc.left - 1]
       IN  IF loc.left <= 0
           THEN /\ pc' = "throne"
                /\ loc' = NoLoc
                /\ UNCHANGED << inputVars, dungeonVars, door_candidates, raised, pre_door_tiles >>
           ELSE IF PickRoomSizeRaises(args.room_min, args.room_max)
           THEN Raise("ValueError")
           ELSE \/ \E new_room \in {r \in RandomRooms(TRUE) : ~OverlapsAny(r)} :
                   \E horizontal_first \in HThenV :
                      /\ PlaceRoom(new_room,
                            CarveCorridor(Center(rooms[NearestRoom(Center(new_room))]),
                                          Center(new_room), horizontal_first))
                      /\ NextExtra
                      /\ UNCHANGED << inputVars, door_candidates, raised, pre_door_tiles >>
                \/ /\ {r \in RandomRooms(TRUE) : OverlapsAny(r)} # {}
                   /\ IF loc.attempts + 1 < RandomExtraAttempts
                      THEN pc' = pc /\ loc' = [loc EXCEPT !.attempts = @ + 1]
                      ELSE NextExtra
                   /\ UNCHANGED << inputVars, dungeonVars, door_candidates, raised, pre_door_tiles >>

(***************************************************************************)
(* The tail of generate: throne room, door pass                            *)
(***************************************************************************)
\* _setup_throne_room and the scan for door candidates
Throne ==
    /\ pc = "throne"
    /\ IF Len(rooms) > 0
       THEN /\ start_room_index' = 0
            /\ throne_room_index' = Len(rooms) - 1
            /\ materials' = ThroneMaterials(materials, tiles, rooms[Len(rooms)])
       ELSE UNCHANGED << start_room_index, throne_room_index, materials >>
    /\ door_candidates' = DoorCandidates(tiles)
    /\ pre_door_tiles' = tiles
    /\ pc' = "doors"
    /\ loc' = [NoLoc EXCEPT !.k = 1]
    /\ UNCHANGED << inputVars, w, h, tiles, doors, rooms, rooms_total, rooms_large,
                    max_rooms_planned, large_width_requirement,
                    large_height_requirement, enforce_large_rooms,
                    max_hallway_segment, raised >>

\* add_door with locked=True: the state the generator never asks for
AddDoorLocked(c) ==
    /\ tiles' = [tiles EXCEPT ![c] = TILE_DOOR]
    /\ doors' = [doors EXCEPT ![c] = DOOR_LOCKED]
    /\ materials' = [materials EXCEPT ![c] = MAT_WOOD]

\* the three writes of add_door, called with the default locked=False
AddDoor(c) ==
    /\ tiles' = [tiles EXCEPT ![c] = TILE_DOOR]
    /\ doors' = [doors EXCEPT ![c] = DOOR_CLOSED]
    /\ materials' = [materials EXCEPT ![c] = MAT_WOOD]

\* one pass of `for x, y in door_candidates`
PlaceDoor ==
    /\ pc = "doors"
    /\ loc.k <= Len(door_candidates)
    /\ \E coin \in Chance(50) :
          LET c == door_candidates[loc.k]
          IN  IF coin /\ AddDoorAccepts(tiles, c[1], c[2])
              THEN AddDoor(c)
              ELSE UNCHANGED << tiles, doors, materials >>
    /\ loc' = [loc EXCEPT !.k = @ + 1]
    /\ UNCHANGED << inputVars, w, h, rooms, start_room_index, throne_room_index,
                    rooms_total, rooms_large, max_rooms_planned,
                    large_width_requirement, large_height_requirement,
                    enforce_large_rooms, max_hallway_segment, pc,
                    door_candidates, raised, pre_door_tiles >>

(***************************************************************************)
(* The tail of generate_dungeon: validation report, extra links, return    *)
(***************************************************************************)
\* int(complexity * max(0, len(rooms) - 1)), not below 0
ExtraLinks == Max2(0, TruncDiv(args.complexity * Max2(0, Len(rooms) - 1), 100))

\* the report after generate: it reads rooms[0] when both indices look right
Validate ==
    /\ pc = "doors"
    /\ loc.k > Len(door_candidates)
    /\ IF /\ start_room_index = 0
          /\ throne_room_index = Len(rooms) - 1
          /\ Len(rooms) = 0
       THEN Raise("IndexError")
       ELSE /\ IF args.linearity <= 50
               THEN pc' = "links" /\ loc' = [NoLoc EXCEPT !.left = ExtraLinks]
               ELSE pc' = "return" /\ loc' = NoLoc
            /\ UNCHANGED << inputVars, dungeonVars, door_candidates, raised, pre_door_tiles >>

\* one pass of `for _ in range(extra_links)`
Link ==
    /\ pc = "links"
    /\ loc.left > 0
    /\ IF Len(rooms) < 2
       THEN /\ pc' = "return"
            /\ loc' = [NoLoc EXCEPT !.links = loc.links]
            /\ UNCHANGED dungeonVars
       ELSE \E a \in 1..Len(rooms) : \E b \in 1..Len(rooms) :
            \E horizontal_first \in Chance(50) :
               /\ IF \/ a = b
                     \/ Manhattan(Center(rooms[a]), Center(rooms[b])) > max_hallway_segment
                  THEN /\ UNCHANGED dungeonVars
                       /\ loc' = [loc EXCEPT !.left = @ - 1]
                  ELSE /\ CarveOnly(CarveCorridor(Center(rooms[a]), Center(rooms[b]),
                                                  horizontal_first))
                       /\ loc' = [loc EXCEPT !.left = @ - 1, !.links = @ + 1]
               /\ pc' = pc
    /\ UNCHANGED << inputVars, door_candidates, raised, pre_door_tiles >>

LinksDone ==
    /\ pc = "links"
    /\ loc.left <= 0
    /\ pc' = "return"
    /\ loc' = [NoLoc EXCEPT !.links = loc.links]
    /\ UNCHANGED << inputVars, dungeonVars, door_candidates, raised, pre_door_tiles >>

\* `return d`
Return ==
    /\ pc = "return"
    /\ pc' = "done"
    /\ UNCHANGED << inputVars, dungeonVars, loc, door_candidates, raised, pre_door_tiles >>


(***************************************************************************)
(* Arguments and the specification of generate_dungeon                     *)
(***************************************************************************)
Args(width, height, complexity, length, room_min, room_max, linearity, entropy) ==
    [width |-> width, height |-> height, complexity |-> complexity,
     length |-> length, room_min |-> room_min, room_max |-> room_max,
     linearity |-> linearity, entropy |-> entropy]

\* The arguments explored.  linearity, entropy and complexity are in
\* hundredths (40 is 0.4).  Each family drives one regime of generate.
MaxLength == 4

MaxRoom == 6

SmallRoom == 4

ChainWidth == 31

ChainHeight == 16

SmallWidth == 14

SmallHeight == 7

LinearWidth == 36

LinearHeight == 18

QuotaWidth == 56

QuotaHeight == 9

ThinWidth == 3

ThinHeight == 11

\* biased regime without entropy: a chain of rooms, doors, one extra link
ChainInputs ==
    { Args(ChainWidth, ChainHeight, 50, MaxLength, MaxRoom, MaxRoom, 40, 0) }

\* random regime with one extra room, biased regime with one side room
SmallInputs ==
    { Args(SmallWidth, SmallHeight, 0, 2, SmallRoom, SmallRoom, 0, 100),
      Args(SmallWidth, SmallHeight, 0, 2, SmallRoom, SmallRoom, 40, 50) }

\* linear regime: two main rooms, and one main room with side rooms
LinearInputs ==
    { Args(LinearWidth, LinearHeight, 0, 3, SmallRoom, SmallRoom, 100, 0),
      Args(LinearWidth - 3 * SmallRoom, LinearHeight, 0, 2, SmallRoom, SmallRoom, 100, 100) }

\* room sizes on both sides of the large-room thresholds
QuotaInputs ==
    { Args(QuotaWidth, QuotaHeight, 0, MaxLength, MaxRoom - 1, MaxRoom, 60, 0) }

\* a grid narrower than a room
ThinInputs ==
    { Args(ThinWidth, ThinHeight, 0, 2, SmallRoom, SmallRoom, 0, 50) }

\* a grid in which no room fits
EmptyInputs ==
    { Args(17, 10, 0, 1, SmallRoom, 9, 100, 0),
      Args(10, 17, 0, 1, SmallRoom, 9, 100, 0) }

\* room_min > room_max, non-positive width and height
NonsenseInputs ==
    { Args(SmallWidth, SmallHeight, 0, 2, MaxRoom, SmallRoom, 0, 50),
      Args(0, 0, 0, 2, SmallRoom, SmallRoom, 0, 0),
      Args(0, 0, 0, 2, SmallRoom, SmallRoom, 0, 50),
      Args(-1, -3, 0, 2, SmallRoom, SmallRoom, 45, 50) }

Inputs ==
    ChainInputs \cup SmallInputs \cup LinearInputs \cup QuotaInputs
        \cup ThinInputs \cup EmptyInputs \cup NonsenseInputs

NoCall == [start |-> << 0, 0 >>, end |-> << 0, 0 >>, horizontal_first |-> TRUE]

\* the state when generate_dungeon is called with arguments drawn from inputs
Called(inputs) ==
    /\ args \in inputs
    /\ call = NoCall
    /\ rng = 0
    /\ w = 0
    /\ h = 0
    /\ tiles = << >>
    /\ materials = << >>
    /\ doors = << >>
    /\ rooms = << >>
    /\ start_room_index = 0
    /\ throne_room_index = -1
    /\ rooms_total = 0
    /\ rooms_large = 0
    /\ max_rooms_planned = 0
    /\ large_width_requirement = MIN_LARGE_ROOM_WIDTH
    /\ large_height_requirement = MIN_LARGE_ROOM_HEIGHT
    /\ enforce_large_rooms = TRUE
    /\ max_hallway_segment = MAX_HALLWAY_SEGMENT
    /\ pc = "call"
    /\ loc = NoLoc
    /\ door_candidates = << >>
    /\ raised = "none"
    /\ pre_door_tiles = << >>

Init == Called(Inputs)

Next ==
    \/ Construct
    \/ LinearHead
    \/ LinearTry
    \/ LinearConnect
    \/ LinearSideHead
    \/ LinearSideTry
    \/ Chain
    \/ BiasedTry
    \/ BiasedConnect
    \/ BiasedSideHead
    \/ BiasedSideTry
    \/ RandomTry
    \/ RandomExtra
    \/ Throne
    \/ PlaceDoor
    \/ Validate
    \/ Link
    \/ LinksDone
    \/ Return

Spec == Init /\ [][Next]_vars

\* generate_dungeon is one uninterrupted call: a step that can be taken is taken
SpecLive == Spec /\ WF_vars(Next)

(***************************************************************************)
(* The documented example: generate_dungeon(width=40, height=20, seed=7,    *)
(* length=6, room_min=4, room_max=8, linearity=1.0, entropy=0.0)            *)
(***************************************************************************)
\* complexity keeps its default, 0.5
ExampleInput == Args(40, 20, 50, 6, 4, 8, 100, 0)

\* the sizes _pick_room_size returns, in order, when the generator was seeded
\* with 7; the other draws are left open
ExampleSizes == << << 8, 4 >>, << 4, 8 >>, << 7, 4 >>, << 8, 7 >>, << 8, 4 >> >>

\* the rooms placed so far have the sizes drawn under seed 7
ExampleDraws ==
    \A k \in 1..Len(rooms) :
        /\ k <= Len(ExampleSizes)
        /\ rooms[k].x2 - rooms[k].x1 = ExampleSizes[k][1]
        /\ rooms[k].y2 - rooms[k].y1 = ExampleSizes[k][2]

InitExample == Called({ExampleInput})

\* the steps of the linear strategy, the only one this call enters
NextExample ==
    /\ \/ Construct
       \/ LinearHead
       \/ LinearTry
       \/ LinearConnect
       \/ Throne
       \/ PlaceDoor
       \/ Validate
       \/ Return
    /\ ExampleDraws'

SpecExample == InitExample /\ [][NextExample]_vars

(***************************************************************************)
(* A direct call of _carve_corridor on a freshly constructed Dungeon        *)
(***************************************************************************)
CorridorWidth == 21

CorridorHeight == 2

\* Dungeon(CorridorWidth, CorridorHeight), before any call of _carve_corridor
InitCorridor ==
    /\ args = Args(CorridorWidth, CorridorHeight, 0, 0, 0, 0, 0, 0)
    /\ call \in [start : Cells(CorridorWidth, CorridorHeight),
                 end : Cells(CorridorWidth, CorridorHeight),
                 horizontal_first : BOOLEAN]
    /\ rng = 0
    /\ w = CorridorWidth
    /\ h = CorridorHeight
    /\ tiles = [p \in Cells(CorridorWidth, CorridorHeight) |-> TILE_WALL]
    /\ materials = [p \in Cells(CorridorWidth, CorridorHeight) |-> MAT_BRICK]
    /\ doors = [p \in Cells(CorridorWidth, CorridorHeight) |-> NO_DOOR]
    /\ rooms = << >>
    /\ start_room_index = 0
    /\ throne_room_index = -1
    /\ rooms_total = 0
    /\ rooms_large = 0
    /\ max_rooms_planned = 0
    /\ large_width_requirement = MIN_LARGE_ROOM_WIDTH
    /\ large_height_requirement = MIN_LARGE_ROOM_HEIGHT
    /\ enforce_large_rooms = TRUE
    /\ max_hallway_segment = MAX_HALLWAY_SEGMENT
    /\ pc = "corridor_call"
    /\ loc = NoLoc
    /\ door_candidates = << >>
    /\ raised = "none"
    /\ pre_door_tiles = << >>

\* d._carve_corridor(call.start, call.end, call.horizontal_first)
CarveCorridorCall ==
    /\ pc = "corridor_call"
    /\ CarveOnly(CarveCorridor(call.start, call.end, call.horizontal_first))
    /\ pc' = "corridor_done"
    /\ UNCHANGED << inputVars, loc, door_candidates, raised, pre_door_tiles >>

NextCorridor == CarveCorridorCall

SpecCorridor == InitCorridor /\ [][NextCorridor]_vars

(***************************************************************************)
(* The seed handling of generate_dungeon                                    *)
(*                                                                         *)
(* Every random choice of the generation is a draw from the process-wide    *)
(* generator of `random`; a run is determined by its arguments and by the   *)
(* sequence of values the generator yields.  Here the generator is a small  *)
(* congruential one, and a call is the sequence of its first draws.         *)
(***************************************************************************)
RngStates == 16

MaxSeed == 3

DrawCount == 3

\* a generator that seeds itself from its previous state as well
SeededMixed(seed, state) == (seed * 7 + 1 + state) % RngStates

\* random.seed(seed): the new state depends on the seed alone
Seeded(seed, state) == (seed * 7 + 1) % RngStates

\* one draw advances the generator
Step(state) == (state * 5 + 3) % RngStates

\* the value a draw returns
Output(state) == state \div 2

\* saved: a state was saved in rnd_state (rnd_state is not None)
NoSeedLoc == [saved |-> FALSE, rnd_state |-> 0, drawn |-> << >>, first |-> << >>,
              entered |-> << >>]

\* two calls to come, with the same seed, from any state of the generator
InitSeed ==
    /\ args = Args(0, 0, 0, 0, 0, 0, 0, 0)
    /\ call \in [seeded : BOOLEAN, seed : 0..MaxSeed]
    /\ (~call.seeded) => call.seed = 0
    /\ rng \in 0..(RngStates - 1)
    /\ w = 0
    /\ h = 0
    /\ tiles = << >>
    /\ materials = << >>
    /\ doors = << >>
    /\ rooms = << >>
    /\ start_room_index = 0
    /\ throne_room_index = -1
    /\ rooms_total = 0
    /\ rooms_large = 0
    /\ max_rooms_planned = 0
    /\ large_width_requirement = MIN_LARGE_ROOM_WIDTH
    /\ large_height_requirement = MIN_LARGE_ROOM_HEIGHT
    /\ enforce_large_rooms = TRUE
    /\ max_hallway_segment = MAX_HALLWAY_SEGMENT
    /\ pc = "seed_call"
    /\ loc = NoSeedLoc
    /\ door_candidates = << >>
    /\ raised = "none"
    /\ pre_door_tiles = << >>

\* rnd_state = random.getstate(); random.seed(seed), when a seed is given
SeedEnter ==
    /\ pc = "seed_call"
    /\ IF call.seeded
       THEN /\ rng' = Seeded(call.seed, rng)
            /\ loc' = [loc EXCEPT !.saved = TRUE, !.rnd_state = rng,
                                  !.drawn = << >>, !.entered = Append(@, rng)]
       ELSE /\ rng' = rng
            /\ loc' = [loc EXCEPT !.saved = FALSE, !.drawn = << >>,
                                  !.entered = Append(@, rng)]
    /\ pc' = "seed_draw"
    /\ UNCHANGED << args, call, dungeonVars, door_candidates, raised, pre_door_tiles >>

\* one random choice of the generation
SeedDraw ==
    /\ pc = "seed_draw"
    /\ Len(loc.drawn) < DrawCount
    /\ rng' = Step(rng)
    /\ loc' = [loc EXCEPT !.drawn = Append(@, Output(rng'))]
    /\ UNCHANGED << args, call, dungeonVars, pc, door_candidates, raised, pre_door_tiles >>

\* finally: random.setstate(rnd_state), when a state was saved; return
SeedExit ==
    /\ pc = "seed_draw"
    /\ Len(loc.drawn) = DrawCount
    /\ rng' = IF loc.saved THEN loc.rnd_state ELSE rng
    /\ IF Len(loc.entered) = 1
       THEN /\ loc' = [loc EXCEPT !.first = loc.drawn, !.drawn = << >>]
            /\ pc' = "seed_between"
       ELSE /\ loc' = loc
            /\ pc' = "seed_done"
    /\ UNCHANGED << args, call, dungeonVars, door_candidates, raised, pre_door_tiles >>

\* an exception that leaves the try block without passing the finally clause
SeedRaiseUnrestored ==
    /\ pc = "seed_draw"
    /\ rng' = rng
    /\ raised' = "ValueError"
    /\ pc' = "seed_raised"
    /\ UNCHANGED << args, call, dungeonVars, loc, door_candidates, pre_door_tiles >>

\* the generation raises after any number of draws: the finally clause runs
\* random.setstate(rnd_state), when a state was saved, and the exception
\* leaves generate_dungeon
SeedRaise ==
    /\ pc = "seed_draw"
    /\ rng' = IF loc.saved THEN loc.rnd_state ELSE rng
    /\ raised' = "ValueError"
    /\ pc' = "seed_raised"
    /\ UNCHANGED << args, call, dungeonVars, loc, door_candidates, pre_door_tiles >>

\* between the two calls other code draws from the generator
OtherDraw ==
    /\ pc = "seed_between"
    /\ rng' = Step(rng)
    /\ UNCHANGED << args, call, dungeonVars, pc, loc, door_candidates, raised,
                    pre_door_tiles >>

\* the second call, with the same arguments
SeedAgain ==
    /\ pc = "seed_between"
    /\ pc' = "seed_call"
    /\ UNCHANGED << inputVars, dungeonVars, loc, door_candidates, raised, pre_door_tiles >>

NextSeed == SeedEnter \/ SeedDraw \/ SeedExit \/ SeedRaise \/ OtherDraw \/ SeedAgain

SpecSeed == InitSeed /\ [][NextSeed]_vars

(***************************************************************************)
(* FOV.compute (main.py): recursive shadow-casting over 8 octants           *)
(*                                                                         *)
(* A slope is a pair <<n, d>> with d > 0 that stands for the float n / d.   *)
(* The slopes of the code are quotients of half-integers of small size, so  *)
(* the float comparisons agree with the exact ones.                         *)
(***************************************************************************)
SlopeLess(a, b) == a[1] * b[2] < b[1] * a[2]

\* l_slope = (dx - 0.5) / (dy + 0.5) with dy = -i
LSlope(dx, i) == << 1 - 2 * dx, 2 * i - 1 >>

\* r_slope = (dx + 0.5) / (dy - 0.5) with dy = -i
RSlope(dx, i) == << 0 - (2 * dx + 1), 2 * i + 1 >>

\* Dungeon.is_wall
IsWall(x, y) == IF InBounds(x, y) THEN tiles[<< x, y >>] = TILE_WALL ELSE TRUE

\* the octant list less its last entry
OctantsSeven ==
    { << 1, 0, 0, 1 >>, << 0, 1, 1, 0 >>, << 0, -1, 1, 0 >>, << 1, 0, 0, -1 >>,
      << -1, 0, 0, -1 >>, << 0, -1, -1, 0 >>, << 0, 1, -1, 0 >> }

\* the multipliers (xx, xy, yx, yy) of the 8 octants
Octants ==
    { << 1, 0, 0, 1 >>, << 0, 1, 1, 0 >>, << 0, -1, 1, 0 >>, << 1, 0, 0, -1 >>,
      << -1, 0, 0, -1 >>, << 0, -1, -1, 0 >>, << 0, 1, -1, 0 >>, << -1, 0, 0, 1 >> }

\* the result of a scan with the tiles of S added to what it saw
Seen(S, scan) == [scan EXCEPT !.visible = @ \cup S]

RECURSIVE CastShadows(_, _, _, _)
RECURSIVE ScanRows(_, _, _, _)
RECURSIVE ScanRow(_, _, _, _, _, _, _)

\* the `while dx <= 0` loop of row i from dx on; c holds cx, cy, radius and
\* the octant, end_slope the end slope of this call of cast_shadows.  The
\* result: the tiles made visible, start_slope and blocked after the loop.
ScanRow(c, end_slope, i, dx, start_slope, new_start, blocked) ==
    IF dx > 0
    THEN [visible |-> {}, start_slope |-> start_slope, blocked |-> blocked]
    ELSE LET dy == 0 - i
             X == c.cx + dx * c.oct[1] + dy * c.oct[2]
             Y == c.cy + dx * c.oct[3] + dy * c.oct[4]
             l_slope == LSlope(dx, i)
             r_slope == RSlope(dx, i)
             lit == IF dx * dx + dy * dy <= c.radius * c.radius
                    THEN {<< X, Y >>} ELSE {}
         IN  IF X < 0 \/ Y < 0 \/ X >= w \/ Y >= h
             THEN ScanRow(c, end_slope, i, dx + 1, start_slope, new_start, blocked)
             ELSE IF SlopeLess(start_slope, r_slope)
             THEN ScanRow(c, end_slope, i, dx + 1, start_slope, new_start, blocked)
             ELSE IF SlopeLess(l_slope, end_slope)
             THEN [visible |-> {}, start_slope |-> start_slope, blocked |-> blocked]
             ELSE IF blocked
             THEN IF IsWall(X, Y)
                  THEN Seen(lit, ScanRow(c, end_slope, i, dx + 1, start_slope,
                                         r_slope, TRUE))
                  ELSE Seen(lit, ScanRow(c, end_slope, i, dx + 1, new_start,
                                         new_start, FALSE))
             ELSE IF IsWall(X, Y) /\ i < c.radius
                  THEN Seen(lit \cup CastShadows(c, i + 1, start_slope, l_slope),
                            ScanRow(c, end_slope, i, dx + 1, start_slope, r_slope, TRUE))
                  ELSE Seen(lit, ScanRow(c, end_slope, i, dx + 1, start_slope,
                                         new_start, FALSE))

\* `for i in range(row, radius + 1)` from row i on
ScanRows(c, end_slope, i, start_slope) ==
    IF i > c.radius
    THEN {}
    ELSE LET scan == ScanRow(c, end_slope, i, 0 - i, start_slope, start_slope, FALSE)
         IN  scan.visible \cup
                 IF scan.blocked THEN {}
                 ELSE ScanRows(c, end_slope, i + 1, scan.start_slope)

\* cast_shadows(row, start_slope, end_slope, xx, xy, yx, yy)
CastShadows(c, row, start_slope, end_slope) ==
    IF SlopeLess(start_slope, end_slope)
    THEN {}
    ELSE ScanRows(c, end_slope, row, start_slope)

\* the tiles the eight scans add, without the origin
ComputeScansOnly(cx, cy, radius) ==
    UNION { CastShadows([cx |-> cx, cy |-> cy, radius |-> radius, oct |-> oct],
                        1, << 1, 1 >>, << 0, 1 >>) : oct \in Octants }

\* FOV.compute(cx, cy, radius) on the dungeon of the state
Compute(cx, cy, radius) ==
    {<< cx, cy >>} \cup
        UNION { CastShadows([cx |-> cx, cy |-> cy, radius |-> radius, oct |-> oct],
                            1, << 1, 1 >>, << 0, 1 >>) : oct \in Octants }

(***************************************************************************)
(* A direct call of FOV.compute on a room with at most one pillar, and on a  *)
(* grid carved to the edge (no wall at all)                                 *)
(***************************************************************************)
FovWidth == 6

FovHeight == 5

FovRadius == 5

\* a Dungeon with the given tiles and nothing else
DungeonWith(gw, gh, grid) ==
    /\ w = gw
    /\ h = gh
    /\ tiles = grid
    /\ materials = [p \in Cells(gw, gh) |->
                      IF grid[p] = TILE_WALL THEN MAT_BRICK ELSE MAT_COBBLE]
    /\ doors = [p \in Cells(gw, gh) |-> NO_DOOR]
    /\ rooms = << >>
    /\ start_room_index = 0
    /\ throne_room_index = -1
    /\ rooms_total = 0
    /\ rooms_large = 0
    /\ max_rooms_planned = 0
    /\ large_width_requirement = MIN_LARGE_ROOM_WIDTH
    /\ large_height_requirement = MIN_LARGE_ROOM_HEIGHT
    /\ enforce_large_rooms = TRUE
    /\ max_hallway_segment = MAX_HALLWAY_SEGMENT
    /\ door_candidates = << >>
    /\ raised = "none"
    /\ pre_door_tiles = << >>

\* Dungeon(gw, gh) after carve_room(Rect(0, 0, gw, gh)) and, for each tile of
\* pillars, stamp_prefab of a one-tile wall
RoomGrid(gw, gh, pillars) ==
    [p \in Cells(gw, gh) |->
        IF /\ InInterior(Rect(0, 0, gw, gh), p[1], p[2])
           /\ p \notin pillars
        THEN TILE_FLOOR ELSE TILE_WALL]

\* the interior of the room that fills a gw x gh grid
Interior(gw, gh) == {p \in Cells(gw, gh) : InInterior(Rect(0, 0, gw, gh), p[1], p[2])}

InitFOV ==
    /\ args = Args(0, 0, 0, 0, 0, 0, 0, 0)
    /\ rng = 0
    /\ \E gw \in 3..FovWidth, gh \in 3..FovHeight :
          /\ \/ \E pillars \in {{}} \cup {{p} : p \in Interior(gw, gh)} :
                    DungeonWith(gw, gh, RoomGrid(gw, gh, pillars))
             \/ DungeonWith(gw, gh, [p \in Cells(gw, gh) |-> TILE_FLOOR])
          /\ call \in [cx : (-1)..gw, cy : (-1)..gh, radius : (-1)..FovRadius]
    /\ pc = "fov_call"
    /\ loc = NoLoc

\* visible = fov.compute(call.cx, call.cy, call.radius)
FovCompute ==
    /\ pc = "fov_call"
    /\ loc' = [visible |-> Compute(call.cx, call.cy, call.radius)]
    /\ pc' = "fov_done"
    /\ UNCHANGED << inputVars, dungeonVars, door_candidates, raised, pre_door_tiles >>

NextFOV == FovCompute

SpecFOV == InitFOV /\ [][NextFOV]_vars

(***************************************************************************)
(* The visible set of a frame (main.py, run_pygame): the occupant's light   *)
(* and the torches.  The torch list is kept as the set of the torches'      *)
(* positions: the frame adds the tiles of each torch to one set.            *)
(***************************************************************************)
LIGHT_RADIUS == 5

TORCH_LIGHT_RADIUS == 3

LightWidth == 6

\* the room is as high as the least large room
LightHeight == MIN_LARGE_ROOM_HEIGHT

MaxTorches == 2

RECURSIVE CeilSqrtFrom(_, _)
CeilSqrtFrom(n, k) == IF k * k >= n THEN k ELSE CeilSqrtFrom(n, k + 1)

\* int(math.ceil(math.sqrt(n)))
CeilSqrt(n) == CeilSqrtFrom(n, 0)

DistSq(p, q) == (p[1] - q[1]) * (p[1] - q[1]) + (p[2] - q[2]) * (p[2] - q[2])

\* base_radius = max(1, int(light_radius - 0.5))
BaseRadius(light_radius) == Max2(1, TruncDiv(2 * light_radius - 1, 2))

\* an extended radius that follows the nearest torch
ExtendedRadiusNearest(origin, light_radius, torches) ==
    LET Reaches == {CeilSqrt(DistSq(torch, origin)) + TORCH_LIGHT_RADIUS :
                       torch \in torches}
    IN  IF torches = {} THEN BaseRadius(light_radius)
        ELSE Max2(BaseRadius(light_radius),
                  CHOOSE m \in Reaches : \A n \in Reaches : m <= n)

\* extended_radius: the base radius, or the reach of the farthest torch
ExtendedRadius(origin, light_radius, torches) ==
    LET Reaches == {CeilSqrt(DistSq(torch, origin)) + TORCH_LIGHT_RADIUS :
                       torch \in torches} \cup {0}
    IN  Max2(BaseRadius(light_radius), CHOOSE m \in Reaches : \A n \in Reaches : n <= m)

\* the tiles a torch the occupant sees adds: those within its radius that
\* are in the occupant's line of sight
TorchLit(torch, los_visible) ==
    IF torch \notin los_visible
    THEN {}
    ELSE {p \in Cells(w, h) :
            /\ DistSq(p, torch) <= TORCH_LIGHT_RADIUS * TORCH_LIGHT_RADIUS
            /\ p \in los_visible}

\* the set `visible` of the frame
FrameVisible(origin, light_radius, torches) ==
    LET los_visible == Compute(origin[1], origin[2],
                               ExtendedRadius(origin, light_radius, torches))
        base_radius == BaseRadius(light_radius)
    IN  {v \in los_visible : DistSq(v, origin) <= base_radius * base_radius}
           \cup UNION {TorchLit(torch, los_visible) : torch \in torches}

\* wall tiles generate_wall_torches considers: on the top and the left wall
\* of the room, less the corners, with a floor tile on the inner side
TorchSites ==
    {<< x, 0 >> : x \in {x \in 1..(w - 2) : tiles[<< x, 1 >>] = TILE_FLOOR}}
       \cup {<< 0, y >> : y \in {y \in 1..(h - 2) : tiles[<< 1, y >>] = TILE_FLOOR}}

\* the sources of prepare_light_sources: the occupant, then the torches
LightSources(origin, light_radius, torches) ==
    {[pos |-> origin, radius |-> Max2(1, light_radius)]}
       \cup {[pos |-> torch, radius |-> TORCH_LIGHT_RADIUS] : torch \in torches}

\* the value evaluate_light_sources gives one source at tile p, in units of
\* intensity / radius^2 (the intensity of every source is positive)
Brightness(src, p) ==
    LET d2 == DistSq(p, src.pos)
        r2 == src.radius * src.radius
    IN  IF d2 > r2 THEN 0
        ELSE IF d2 = 0 THEN r2
        ELSE r2 - d2

\* the occupant stands on a floor tile of a room with at most one pillar; no
\* torch yet
InitLight ==
    /\ args = Args(0, 0, 0, 0, 0, 0, 0, 0)
    /\ rng = 0
    /\ \E pillars \in {{}} \cup {{p} : p \in Interior(LightWidth, LightHeight)} :
          /\ DungeonWith(LightWidth, LightHeight,
                         RoomGrid(LightWidth, LightHeight, pillars))
          /\ \E origin \in Interior(LightWidth, LightHeight) \ pillars,
                light_radius \in {1, LIGHT_RADIUS} :
                 call = [origin |-> origin, light_radius |-> light_radius,
                         torches |-> {}]
    /\ pc = "light_frame"
    /\ loc = [visible |-> {}, before |-> {}]

\* the visibility update of one frame
Frame ==
    /\ pc = "light_frame"
    /\ loc' = [visible |-> FrameVisible(call.origin, call.light_radius, call.torches),
               before |-> loc.visible]
    /\ pc' = "light_done"
    /\ UNCHANGED << inputVars, dungeonVars, door_candidates, raised, pre_door_tiles >>

\* one more torch in the list of the level
AddTorch ==
    /\ pc = "light_done"
    /\ Cardinality(call.torches) < MaxTorches
    /\ \E torch \in TorchSites \ call.torches :
          call' = [call EXCEPT !.torches = @ \cup {torch}]
    /\ pc' = "light_frame"
    /\ UNCHANGED << args, rng, dungeonVars, loc, door_candidates, raised, pre_door_tiles >>

NextLight == Frame \/ AddTorch

SpecLight == InitLight /\ [][NextLight]_vars

(***************************************************************************)
(* A door between two rooms (add_door), and the occupant's moves and frames *)
(* next to it (main.py, run_pygame, with debug_noclip off)                  *)
(***************************************************************************)
DoorWidth == 7

DoorHeight == 5

\* two rooms side by side, sharing the wall column DoorWidth \div 2
InitDoor ==
    /\ args = Args(0, 0, 0, 0, 0, 0, 0, 0)
    /\ rng = 0
    /\ LET mid == DoorWidth \div 2
           left == Rect(0, 0, mid + 1, DoorHeight)
           right == Rect(mid, 0, DoorWidth - mid, DoorHeight)
       IN  /\ DungeonWith(DoorWidth, DoorHeight,
                          [p \in Cells(DoorWidth, DoorHeight) |->
                              IF \/ InInterior(left, p[1], p[2])
                                 \/ InInterior(right, p[1], p[2])
                              THEN TILE_FLOOR ELSE TILE_WALL])
           /\ call \in [x : {mid}, y : 1..(DoorHeight - 2), locked : BOOLEAN,
                        light_radius : 1..LIGHT_RADIUS]
    /\ pc = "door_call"
    /\ loc = NoLoc

\* d.add_door(call.x, call.y, locked=call.locked); the occupant starts in the
\* left room
AddDoorCall ==
    /\ pc = "door_call"
    /\ IF AddDoorAccepts(tiles, call.x, call.y)
       THEN /\ tiles' = [tiles EXCEPT ![<< call.x, call.y >>] = TILE_DOOR]
            /\ doors' = [doors EXCEPT ![<< call.x, call.y >>] =
                            IF call.locked THEN DOOR_LOCKED ELSE DOOR_CLOSED]
            /\ materials' = [materials EXCEPT ![<< call.x, call.y >>] = MAT_WOOD]
       ELSE UNCHANGED << tiles, doors, materials >>
    /\ pc' = "play"
    /\ loc' = [px |-> 1, py |-> 1, visible |-> {}]
    /\ UNCHANGED << inputVars, w, h, rooms, start_room_index, throne_room_index,
                    rooms_total, rooms_large, max_rooms_planned,
                    large_width_requirement, large_height_requirement,
                    enforce_large_rooms, max_hallway_segment, door_candidates,
                    raised, pre_door_tiles >>

\* one frame: a movement key (W, A, S, D) or none, then the visibility update
MoveKey ==
    /\ pc = "play"
    /\ \E d \in {<< 0, 0 >>, << 0, -1 >>, << 0, 1 >>, << -1, 0 >>, << 1, 0 >>} :
          LET nx == loc.px + d[1]
              ny == loc.py + d[2]
              moves == /\ d # << 0, 0 >>
                       /\ InBounds(nx, ny)
                       /\ ~IsWall(nx, ny)
              px == IF moves THEN nx ELSE loc.px
              py == IF moves THEN ny ELSE loc.py
          IN  loc' = [px |-> px, py |-> py,
                      visible |-> FrameVisible(<< px, py >>, call.light_radius, {})]
    /\ pc' = pc
    /\ UNCHANGED << inputVars, dungeonVars, door_candidates, raised, pre_door_tiles >>

NextDoor == AddDoorCall \/ MoveKey

SpecDoor == InitDoor /\ [][NextDoor]_vars

(***************************************************************************)
(* The saved form of a level (main.py): encode_tiles and encode_materials   *)
(* write one string per row, decode_tiles and decode_materials read them    *)
(* back.  A string is kept as the sequence of its characters.               *)
(***************************************************************************)
DigitChars == << "0", "1", "2", "3", "4", "5", "6", "7", "8", "9" >>

\* str(n) of a non-negative int
RECURSIVE Str(_)
Str(n) ==
    IF n < 10
    THEN << DigitChars[n + 1] >>
    ELSE Str(n \div 10) \o << DigitChars[(n % 10) + 1] >>

\* int(ch) of one decimal digit
IntOf(ch) == CHOOSE d \in 0..9 : DigitChars[d + 1] = ch

\* ''.join(row)
RECURSIVE Join(_)
Join(row) == IF row = << >> THEN << >> ELSE Head(row) \o Join(Tail(row))

\* '1' for a wall, '0' for every other tile
EncodeTiles(d) ==
    [y \in 1..d.h |->
        [x \in 1..d.w |->
            IF d.tiles[<< x - 1, y - 1 >>] = TILE_WALL THEN "1" ELSE "0"]]

\* Dungeon(w, h) of the width of the first row, then one tile per character
DecodeTiles(rows) ==
    LET gh == Len(rows)
        gw == IF gh > 0 THEN Len(rows[1]) ELSE 0
    IN  [w |-> gw,
         h |-> gh,
         tiles |-> [p \in Cells(gw, gh) |->
                       IF rows[p[2] + 1][p[1] + 1] = "1"
                       THEN TILE_WALL ELSE TILE_FLOOR],
         materials |-> [p \in Cells(gw, gh) |-> MAT_BRICK]]

EncodeMaterials(d) ==
    [y \in 1..d.h |->
        Join([x \in 1..d.w |-> Str(d.materials[<< x - 1, y - 1 >>])])]

\* the characters of row y inside the grid overwrite the materials
DecodeMaterials(d, rows) ==
    [d EXCEPT !.materials =
        [p \in Cells(d.w, d.h) |->
            IF p[2] < Len(rows) /\ p[1] < Len(rows[p[2] + 1])
            THEN IntOf(rows[p[2] + 1][p[1] + 1])
            ELSE d.materials[p]]]

\* the fields of the Dungeon that the saved form carries
Grid == [w |-> w, h |-> h, tiles |-> tiles, materials |-> materials]

\* session_to_dict: the level entry of the save file
SaveGame ==
    /\ pc = "done"
    /\ pc' = "saved"
    /\ loc' = [tiles |-> EncodeTiles(Grid), materials |-> EncodeMaterials(Grid)]
    /\ UNCHANGED << inputVars, dungeonVars, door_candidates, raised, pre_door_tiles >>

\* dict_to_session: decode_tiles, then decode_materials on its result
LoadGame ==
    /\ pc = "saved"
    /\ pc' = "loaded"
    /\ loc' = [loaded |-> DecodeMaterials(DecodeTiles(loc.tiles), loc.materials)]
    /\ UNCHANGED << inputVars, dungeonVars, door_candidates, raised, pre_door_tiles >>

NextSave ==
    \/ Next
    \/ SaveGame
    \/ LoadGame

SpecSave == Init /\ [][NextSave]_vars

(***************************************************************************)
(* A direct call of stamp_prefab on a carved room.  cells is a list of rows  *)
(* of equal length (prefab_loader rejects any other), a row the sequence of *)
(* its characters; legend maps a character to a record that may lack the    *)
(* "tile" or the "material" key.                                            *)
(***************************************************************************)
StampWidth == 3

StampHeight == 3

MaxCells == 4

\* only the cells without a legend entry are skipped
StampSkipsMissing(legend, ch) == ch \notin DOMAIN legend

\* `if not entry: continue` and `if entry.get('tile') == 'void': continue`
StampSkips(legend, ch) ==
    \/ ch \notin DOMAIN legend
    \/ DOMAIN legend[ch] = {}
    \/ ("tile" \in DOMAIN legend[ch] /\ legend[ch].tile = "void")

\* << t, m >> of an entry: tile_map.get(tile_name, TILE_FLOOR) and
\* mat_map.get(mat_name, MAT_COBBLE), with the defaults 'floor' and 'cobble'
\* of a missing key (of mat_map, the names with a MAT_ constant above)
StampValue(entry) ==
    LET tile_name == IF "tile" \in DOMAIN entry THEN entry.tile ELSE "floor"
        mat_name == IF "material" \in DOMAIN entry THEN entry.material ELSE "cobble"
    IN  << IF tile_name = "wall" THEN TILE_WALL ELSE TILE_FLOOR,
           CASE mat_name = "brick" -> MAT_BRICK
             [] mat_name = "iron" -> MAT_IRON
             [] mat_name = "marble" -> MAT_MARBLE
             [] mat_name = "wood" -> MAT_WOOD
             [] OTHER -> MAT_COBBLE >>

InitStamp ==
    /\ args = Args(0, 0, 0, 0, 0, 0, 0, 0)
    /\ rng = 0
    /\ DungeonWith(StampWidth, StampHeight, RoomGrid(StampWidth, StampHeight, {}))
    /\ \E bw \in 1..MaxCells, bh \in 0..MaxCells :
          /\ bw * bh <= MaxCells
          /\ call \in [px : (-1)..StampWidth, py : (-1)..StampHeight,
                       cells : [1..bh -> [1..bw -> {"#", ".", "_", " "}]],
                       legend : {[c \in {"#", ".", "_"} |->
                                    CASE c = "#" -> [tile |-> "wall", material |-> "iron"]
                                      [] c = "." -> [tile |-> "floor"]
                                      [] c = "_" -> [tile |-> "void", material |-> "wood"]]}]
    /\ pc = "stamp_call"
    /\ loc = NoLoc

\* self.stamp_prefab(call.px, call.py, call.cells, call.legend)
StampPrefab ==
    /\ pc = "stamp_call"
    /\ LET bh == Len(call.cells)
           bw == IF bh > 0 THEN Len(call.cells[1]) ELSE 0
           ch(p) == call.cells[p[2] - call.py + 1][p[1] - call.px + 1]
           written == {p \in Cells(w, h) :
                          /\ 0 <= p[1] - call.px /\ p[1] - call.px < bw
                          /\ 0 <= p[2] - call.py /\ p[2] - call.py < bh
                          /\ ~StampSkips(call.legend, ch(p))}
       IN  /\ tiles' = [p \in Cells(w, h) |->
                          IF p \in written
                          THEN StampValue(call.legend[ch(p)])[1] ELSE tiles[p]]
           /\ materials' = [p \in Cells(w, h) |->
                              IF p \in written
                              THEN StampValue(call.legend[ch(p)])[2] ELSE materials[p]]
    /\ loc' = [tiles |-> tiles, materials |-> materials]
    /\ pc' = "stamp_done"
    /\ UNCHANGED << inputVars, w, h, doors, rooms, start_room_index,
                    throne_room_index, rooms_total, rooms_large,
                    max_rooms_planned, large_width_requirement,
                    large_height_requirement, enforce_large_rooms,
                    max_hallway_segment, door_candidates, raised,
                    pre_door_tiles >>

SpecStamp == InitStamp /\ [][StampPrefab]_vars

(***************************************************************************)
(* Properties                                                              *)
(***************************************************************************)
Returned == pc = "done"

\* interval overlap on both axes
RectsOverlap(a, b) ==
    /\ a.x1 < b.x2 /\ b.x1 < a.x2
    /\ a.y1 < b.y2 /\ b.y1 < a.y2

\* C1: after generate_dungeon returns, no two distinct rooms of the final
\* room list have intersecting rectangles.
C1_NoOverlap ==
    Returned =>
        \A i \in 1..Len(rooms) : \A j \in 1..Len(rooms) :
            i # j => ~RectsOverlap(rooms[i], rooms[j])

\* generate_dungeon returned main rooms and a side room
C1_Witness ==
    /\ Returned
    /\ args.entropy > 0
    /\ Len(rooms) >= 3

Neighbours4(p) ==
    {<< p[1] + 1, p[2] >>, << p[1] - 1, p[2] >>, << p[1], p[2] + 1 >>, << p[1], p[2] - 1 >>}

Passable(p) == InBounds(p[1], p[2]) /\ tiles[p] \in {TILE_FLOOR, TILE_DOOR}

\* 4-connected flood fill over Floor and Door tiles
RECURSIVE Flood(_, _)
Flood(seen, frontier) ==
    IF frontier = {} THEN seen
    ELSE LET next == {q \in UNION {Neighbours4(p) : p \in frontier} :
                        Passable(q) /\ q \notin seen}
         IN  Flood(seen \cup next, next)

ReachableFromStart ==
    LET start == {p \in RoomCells(rooms[1]) : Passable(p)}
    IN  Flood(start, start)

\* C2: after generate_dungeon returns, the interior of every room is reachable
\* from the interior of room 0 by a 4-connected path over Floor and Door tiles.
C2_Connectivity ==
    (Returned /\ Len(rooms) > 0) =>
        \A k \in 1..Len(rooms) : RoomCells(rooms[k]) \subseteq ReachableFromStart

\* C3: in every state, a tile has a door state exactly when it is a Door tile.
C3_DoorStateIffDoorTile ==
    \A p \in DOMAIN tiles : (doors[p] # NO_DOOR) <=> (tiles[p] = TILE_DOOR)

\* C4: when generate_dungeon returns at least one room, the last room is the
\* throne room, its interior is Marble and its Wall tiles are Iron.
C4_ThroneTagging ==
    (Returned /\ Len(rooms) >= 1) =>
        /\ IsThroneRoom(Len(rooms) - 1)
        /\ \A p \in RoomCells(rooms[Len(rooms)]) : materials[p] = MAT_MARBLE
        /\ \A p \in RectCells(rooms[Len(rooms)]) :
              tiles[p] = TILE_WALL => materials[p] = MAT_IRON

\* Floor on two opposite sides of (x, y) and Wall on the other two
PassageShape(t, x, y) ==
    \/ /\ t[<< x - 1, y >>] = TILE_FLOOR /\ t[<< x + 1, y >>] = TILE_FLOOR
       /\ t[<< x, y - 1 >>] = TILE_WALL /\ t[<< x, y + 1 >>] = TILE_WALL
    \/ /\ t[<< x, y - 1 >>] = TILE_FLOOR /\ t[<< x, y + 1 >>] = TILE_FLOOR
       /\ t[<< x - 1, y >>] = TILE_WALL /\ t[<< x + 1, y >>] = TILE_WALL

DoorTiles == {p \in DOMAIN tiles : tiles[p] = TILE_DOOR}

\* C5: from the door pass on, every Door tile had, in the tiles as they were
\* before any door was placed, Floor on two opposite sides and Wall on the
\* other two.
C5_DoorValidity ==
    pc \in {"doors", "links", "return", "done"} =>
        \A p \in DoorTiles : PassageShape(pre_door_tiles, p[1], p[2])

\* generate_dungeon returned a dungeon with several doors
C5_Witness ==
    /\ Returned
    /\ Cardinality(DoorTiles) >= 2

\* room_max is at least both large-room thresholds
RoomMaxPermits ==
    /\ args.room_max >= Max2(MIN_LARGE_ROOM_WIDTH, args.room_min)
    /\ args.room_max >= Max2(MIN_LARGE_ROOM_HEIGHT, args.room_min)

\* the number of large rooms among the first n rooms
LargeAmongFirst(n) ==
    Cardinality({k \in 1..n :
        /\ rooms[k].x2 - rooms[k].x1 >= Max2(MIN_LARGE_ROOM_WIDTH, args.room_min)
        /\ rooms[k].y2 - rooms[k].y1 >= Max2(MIN_LARGE_ROOM_HEIGHT, args.room_min)})

\* C6: at the end of generation, when room_max permits the large-room
\* thresholds, at least ceil(len(rooms) / 2) of the rooms are large.
C6_LargeRoomQuota ==
    (Returned /\ RoomMaxPermits) =>
        LargeAmongFirst(Len(rooms)) >= CeilHalf(Len(rooms))

\* generate_dungeon returned three rooms, one of them not large
C6_Witness ==
    /\ Returned
    /\ RoomMaxPermits
    /\ Len(rooms) >= 3
    /\ LargeAmongFirst(Len(rooms)) < Len(rooms)

\* C7 as stated: for every n >= 1, at least ceil((n+1)/2) of the first n
\* placed rooms are large, when room_max permits the large-room thresholds.
C7_QuotaAsStated ==
    RoomMaxPermits =>
        \A n \in 1..Len(rooms) : LargeAmongFirst(n) >= CeilHalf(n + 1)

\* C7: in every state, for every n >= 1, at least ceil(n/2) of the first n
\* placed rooms are large, when room_max permits the large-room thresholds.
C7_IncrementalQuota ==
    RoomMaxPermits =>
        \A n \in 1..Len(rooms) : LargeAmongFirst(n) >= CeilHalf(n)

\* during generation two rooms are placed and only one of them is large
C7_Witness ==
    /\ ~Returned
    /\ RoomMaxPermits
    /\ Len(rooms) = 2
    /\ LargeAmongFirst(2) = 1

\* n Floor tiles in a row from (x, y) in direction (dx, dy)
FloorRun(x, y, dx, dy, n) ==
    \A k \in 0..(n - 1) :
        /\ InBounds(x + k * dx, y + k * dy)
        /\ tiles[<< x + k * dx, y + k * dy >>] = TILE_FLOOR

\* C8: a call of _carve_corridor leaves no straight run of carved tiles longer
\* than max_hallway_segment along either axis.
C8_SegmentBound ==
    pc = "corridor_done" =>
        \A p \in DOMAIN tiles :
            /\ ~FloorRun(p[1], p[2], 1, 0, max_hallway_segment + 1)
            /\ ~FloorRun(p[1], p[2], 0, 1, max_hallway_segment + 1)

\* C9: with room_min <= room_max and a positive width and height,
\* generate_dungeon never leaves by an exception.
C9_NoFatalError ==
    (args.room_min <= args.room_max /\ args.width > 0 /\ args.height > 0) =>
        pc # "raised"

\* C10: with room_min > room_max or a non-positive width or height,
\* generate_dungeon never leaves by an exception.
C10_NonsenseClamped ==
    (args.room_min > args.room_max \/ args.width <= 0 \/ args.height <= 0) =>
        pc # "raised"

\* every call of generate_dungeon ends, by its return or by an exception
Terminated == pc \in {"done", "raised"}

\* no placement loop, _axis_steps or _limit_center_distance runs for ever
EventuallyTerminated == <>Terminated

\* C11: for every input and every sequence of random draws generate_dungeon
\* eventually returns.
C11_EventuallyReturns == <>Returned

OpenRoom == \A p \in Interior(w, h) : tiles[p] = TILE_FLOOR

OriginInRange == InBounds(call.cx, call.cy)

InRadius(p, q, radius) ==
    (p[1] - q[1]) * (p[1] - q[1]) + (p[2] - q[2]) * (p[2] - q[2]) <= radius * radius

\* C13: from an origin inside an open room without obstructions,
\* FOV.compute(x, y, r) returns exactly the tiles of the room, interior and
\* bounding walls, with dx^2 + dy^2 <= r^2, for every origin and radius r >= 0.
C13_OpenRoomDisc ==
    (/\ pc = "fov_done"
     /\ OpenRoom
     /\ << call.cx, call.cy >> \in Interior(w, h)
     /\ call.radius >= 0)
        => loc.visible = {p \in Cells(w, h) :
                            InRadius(p, << call.cx, call.cy >>, call.radius)}

\* an open room seen from a corner of its interior: the radius reaches some
\* walls and leaves some tiles of the room out
C13_Witness ==
    /\ pc = "fov_done"
    /\ OpenRoom
    /\ << call.cx, call.cy >> = << 1, 1 >>
    /\ w = FovWidth /\ h = FovHeight
    /\ call.radius = 3
    /\ << 0, 0 >> \in loc.visible
    /\ << 4, 1 >> \in loc.visible
    /\ << 4, 2 >> \notin loc.visible

\* C14: for any two non-wall tiles a and b, b is in FOV.compute(a, r) if and
\* only if a is in FOV.compute(b, r).
C14_Symmetric ==
    (pc = "fov_done" /\ OriginInRange /\ ~IsWall(call.cx, call.cy))
        => \A b \in Cells(w, h) :
              ~IsWall(b[1], b[2])
                 => ((b \in loc.visible)
                       <=> (<< call.cx, call.cy >> \in Compute(b[1], b[2], call.radius)))

\* C15: for an origin outside the grid or a radius <= 0, FOV.compute returns
\* the empty set or the origin alone.
C15_DegenerateCall ==
    (pc = "fov_done" /\ (~OriginInRange \/ call.radius <= 0))
        => loc.visible \subseteq {<< call.cx, call.cy >>}

\* C16: adding one more torch to the list never removes a tile from the
\* composed visible set.
C16_TorchMonotone ==
    (pc = "light_done" /\ call.torches # {}) => loc.before \subseteq loc.visible

\* a second torch was added and the visible set grew
C16_Witness ==
    /\ pc = "light_done"
    /\ Cardinality(call.torches) = 2
    /\ loc.before # {}
    /\ loc.before # loc.visible

\* C17: a tile is in the composed visible set if and only if some source
\* (occupant or torch) has nonzero brightness at the tile and the tile passed
\* the shadow-cast taken from that source's origin.
C17_VisibleIffLitAndSeen ==
    pc = "light_done" =>
        \A p \in Cells(w, h) :
            (p \in loc.visible)
               <=> \E src \in LightSources(call.origin, call.light_radius, call.torches) :
                      /\ Brightness(src, p) > 0
                      /\ p \in Compute(src.pos[1], src.pos[2], src.radius)

\* C18: generate_dungeon(width=40, height=20, seed=7, length=6, room_min=4,
\* room_max=8, linearity=1.0, entropy=0.0) returns exactly 6 rooms, pairwise
\* non-overlapping, arranged along the x axis of a 40x20 grid.
C18_ExampleLayout ==
    (Returned /\ args = ExampleInput) =>
        /\ Len(rooms) = 6
        /\ w = 40 /\ h = 20
        /\ \A i \in 1..Len(rooms) : \A j \in 1..Len(rooms) :
              i # j => ~RectsOverlap(rooms[i], rooms[j])
        /\ \A i \in 1..(Len(rooms) - 1) :
              Center(rooms[i])[1] < Center(rooms[i + 1])[1]


\* C19: a dungeon returned by generate_dungeon, saved with encode_tiles and
\* encode_materials and read back with decode_tiles and decode_materials,
\* has the width, height, tiles and materials it had
C19_RoundTrip == pc = "loaded" => loc.loaded = Grid

\* C20: every entry of the doors array is "no door" or Closed, in every state
\* of the generation and after the return, and every Door tile is Closed with
\* material Wood
C20_DoorsClosedWood ==
    \A p \in Cells(w, h) :
        /\ doors[p] \in {NO_DOOR, DOOR_CLOSED}
        /\ tiles[p] = TILE_DOOR => (doors[p] = DOOR_CLOSED /\ materials[p] = MAT_WOOD)

C20_Witness ==
    /\ Returned
    /\ \E p \in Cells(w, h) : tiles[p] = TILE_DOOR /\ doors[p] = DOOR_CLOSED

\* C21: once the door pass has begun, no carve changes the grid: every tile is
\* what it was when the scan for room entrances started, or a Door placed by
\* the pass
C21_NoCarveAfterDoorPass ==
    pc \in {"doors", "links", "return", "done"} =>
        \A p \in DOMAIN tiles :
            tiles[p] = pre_door_tiles[p] \/ tiles[p] = TILE_DOOR

\* the character of the stamped block that lies over tile p; " ", which has
\* no legend entry, for a tile outside the block
BlockChar(p) ==
    LET bh == Len(call.cells)
        bw == IF bh > 0 THEN Len(call.cells[1]) ELSE 0
        x == p[1] - call.px
        y == p[2] - call.py
    IN  IF 0 <= x /\ x < bw /\ 0 <= y /\ y < bh THEN call.cells[y + 1][x + 1] ELSE " "

\* C22: after stamp_prefab, a tile whose kind or material changed lies under a
\* character of the block that has a legend entry other than "void"; tiles
\* under "void", under a character without entry and outside the block keep
\* both; the call does not raise, wherever the block lies
C22_StampFrame ==
    pc = "stamp_done" =>
        /\ raised = "none"
        /\ \A p \in Cells(w, h) :
              (tiles[p] # loc.tiles[p] \/ materials[p] # loc.materials[p]) =>
                  /\ BlockChar(p) \in DOMAIN call.legend
                  /\ call.legend[BlockChar(p)].tile # "void"

\* a block that extends past the grid, with a "void" cell and a cell without
\* entry over tiles of the grid, has changed another tile
C22_Witness ==
    /\ pc = "stamp_done"
    /\ Len(call.cells) > 0
    /\ call.px + Len(call.cells[1]) > w
    /\ \E p \in Cells(w, h) : BlockChar(p) = "_" /\ tiles[p] = TILE_FLOOR
    /\ \E p \in Cells(w, h) :
          /\ p[1] >= call.px /\ p[2] >= call.py /\ p[2] < call.py + Len(call.cells)
          /\ BlockChar(p) = " "
    /\ \E p \in Cells(w, h) : tiles[p] # loc.tiles[p]

\* C23: the number of extra links carved is round(complexity * (room_count - 1))
\* when linearity <= 0.5, and none is carved above it (every link joins two
\* distinct rooms with centres at most max_hallway_segment apart)
C23_LinkCount ==
    Returned =>
        loc.links \in (IF args.linearity <= 50
                       THEN RoundDiv(args.complexity * Max2(0, Len(rooms) - 1), 100)
                       ELSE {0})

\* C24: a step of a side-room loop (linear, biased-linear) or of the
\* extra-room loop (random) that places a room places one that does not
\* intersect any earlier room expanded by 2 tiles on every side
C24_SideRoomBuffer ==
    [][(/\ pc \in {"linear_side_try", "biased_side_try", "random_extra"}
        /\ Len(rooms') = Len(rooms) + 1)
          => \A k \in 1..Len(rooms) :
                ~Intersect(rooms'[Len(rooms')], Buffered(rooms[k]))]_vars

\* the same, for the side rooms of the linear regime alone
LinearSideRoomBuffer ==
    [][(pc = "linear_side_try" /\ Len(rooms') = Len(rooms) + 1)
          => \A k \in 1..Len(rooms) :
                ~Intersect(rooms'[Len(rooms')], Buffered(rooms[k]))]_vars

\* the waypoints pts lead from start to end: each one is nearer to end than
\* the point before it, on the same side of it, at most seg away from the
\* point before, and the last one is end; none when start = end
StepsLead(start, end, pts, seg) ==
    /\ (start = end) <=> (pts = << >>)
    /\ pts # << >> => pts[Len(pts)] = end
    /\ \A k \in 1..Len(pts) :
          LET prev == IF k = 1 THEN start ELSE pts[k - 1]
          IN  /\ Abs(pts[k] - prev) <= seg
              /\ Sign(pts[k] - prev) = Sign(end - start)
              /\ Abs(end - pts[k]) < Abs(end - prev)

\* the tunnel calls segs form one path from start to end, each at most seg long
TunnelsLead(start, end, segs, seg) ==
    /\ \A k \in 1..Len(segs) : Abs(segs[k].b - segs[k].a) <= seg
    /\ \A k \in 1..Len(segs) :
          LET from == IF segs[k].horiz THEN << segs[k].a, segs[k].c >>
                      ELSE << segs[k].c, segs[k].a >>
              to == IF k = 1 THEN start
                    ELSE IF segs[k - 1].horiz THEN << segs[k - 1].b, segs[k - 1].c >>
                    ELSE << segs[k - 1].c, segs[k - 1].b >>
          IN  from = to
    /\ IF segs = << >> THEN start = end
       ELSE LET s == segs[Len(segs)]
            IN  end = IF s.horiz THEN << s.b, s.c >> ELSE << s.c, s.b >>

\* C25: _axis_steps(start, end) moves monotonically from start to end in steps
\* of at most max_hallway_segment and ends at end (empty when start = end);
\* the tunnel calls of _carve_corridor each advance by at most
\* max_hallway_segment and the last one ends at the requested end point
C25_AxisSteps ==
    pc = "corridor_done" =>
        /\ StepsLead(call.start[1], call.end[1],
                     AxisSteps(call.start[1], call.end[1], max_hallway_segment),
                     max_hallway_segment)
        /\ StepsLead(call.start[2], call.end[2],
                     AxisSteps(call.start[2], call.end[2], max_hallway_segment),
                     max_hallway_segment)
        /\ TunnelsLead(call.start, call.end,
                       CarveCorridor(call.start, call.end, call.horizontal_first),
                       max_hallway_segment)
        /\ \A p \in {call.start, call.end} : tiles[p] = TILE_FLOOR \/ call.start = call.end

\* a corridor longer than one segment along x, with a turn
C25_Witness ==
    /\ pc = "corridor_done"
    /\ Abs(call.end[1] - call.start[1]) > max_hallway_segment
    /\ call.end[2] # call.start[2]
    /\ Len(CarveCorridor(call.start, call.end, call.horizontal_first)) = 3

\* the occupant stands on a tile that holds a Closed or Locked door
OnShutDoor ==
    /\ tiles[<< loc.px, loc.py >>] = TILE_DOOR
    /\ doors[<< loc.px, loc.py >>] \in {DOOR_CLOSED, DOOR_LOCKED}

\* from the left room the occupant sees a tile of the right room, which only
\* the tile of the door joins to the left one
SeesPastDoor ==
    /\ loc.px < call.x
    /\ \E v \in loc.visible : v[1] > call.x

\* C26: a tile holding a Closed or Locked door blocks movement and light: the
\* occupant is never on such a tile and never sees a tile behind it
C26_ShutDoorBlocks ==
    pc = "play" => (~OnShutDoor /\ ~SeesPastDoor)

\* each half of C26 on its own
ShutDoorBlocksMove == pc = "play" => ~OnShutDoor

ShutDoorBlocksLight == pc = "play" => ~SeesPastDoor

\* C27: the step that leaves generate_dungeon, by return or by an exception,
\* leaves the generator in the state it had when the call began when a seed
\* was given, and in the state the draws left it in when seed is None
C27_SeedRestores ==
    [][(pc = "seed_draw" /\ pc' # "seed_draw") =>
          IF call.seeded
          THEN rng' = loc.entered[Len(loc.entered)]
          ELSE rng' = rng /\ ~loc.saved]_vars

\* a seeded call that drew from the generator and raised, with the generator
\* back in the state of the call's beginning, which is not the seeded one
C27_Witness ==
    /\ pc = "seed_raised"
    /\ call.seeded
    /\ Len(loc.drawn) > 0
    /\ rng = loc.entered[Len(loc.entered)]
    /\ rng # Seeded(call.seed, rng)

\* an unseeded call has returned and the generator is where the draws left it
UnseededMoves ==
    (pc = "seed_done" /\ ~call.seeded) => rng # loc.entered[Len(loc.entered)]

\* C28: for an origin inside the grid and a radius >= 1, FOV.compute returns a
\* set that holds the origin and only tiles of the grid with
\* dx^2 + dy^2 <= r^2, whatever the walls, and leaves the dungeon as it was
C28_FovWithinGridAndRadius ==
    [][(pc = "fov_call" /\ OriginInRange /\ call.radius >= 1) =>
          /\ << call.cx, call.cy >> \in loc'.visible
          /\ \A v \in loc'.visible :
                /\ v \in Cells(w, h)
                /\ InRadius(v, << call.cx, call.cy >>, call.radius)
          /\ UNCHANGED dungeonVars]_vars

\* a call from the edge of a grid without walls: the scans run past the edge,
\* and tiles of the grid beyond the radius are left out
C28_Witness ==
    /\ pc = "fov_done"
    /\ \A p \in Cells(w, h) : tiles[p] = TILE_FLOOR
    /\ call.cx = 0 /\ call.cy = 0
    /\ call.radius = 2
    /\ << 2, 0 >> \in loc.visible
    /\ << 1, 1 >> \in loc.visible
    /\ << 2, 2 >> \notin loc.visible

\* C29: no two Door tiles are orthogonally adjacent, in any state
C29_NoAdjacentDoors ==
    \A p \in DoorTiles : Neighbours4(p) \cap DoorTiles = {}

\* the door pass is over, a door stands at one candidate, and a candidate
\* next to it came later in the pass
C29_Witness ==
    /\ pc \in {"links", "return", "done"}
    /\ \E j \in 1..Len(door_candidates) : \E k \in 1..Len(door_candidates) :
          /\ j < k
          /\ door_candidates[j] \in DoorTiles
          /\ door_candidates[k] \in Neighbours4(door_candidates[j])

\* the tiles on the outer edge of the grid
EdgeCells == {p \in Cells(w, h) : p[1] \in {0, w - 1} \/ p[2] \in {0, h - 1}}

\* C30: when the grid is at least room_max + 3 wide and high and
\* room_min >= 3, every placed room lies within 1..w-1 by 1..h-1 and its
\* centre is a Floor tile of its interior, and after the return every tile on
\* the outer edge of the grid is Wall
C30_RoomsInsideGrid ==
    (/\ pc # "call"
     /\ w >= args.room_max + 3 /\ h >= args.room_max + 3
     /\ args.room_min >= 3)
        => /\ \A k \in 1..Len(rooms) :
                 LET r == rooms[k]
                     c == Center(r)
                 IN  /\ 1 <= r.x1 /\ r.x2 <= w - 1
                     /\ 1 <= r.y1 /\ r.y2 <= h - 1
                     /\ InInterior(r, c[1], c[2])
                     /\ tiles[c] = TILE_FLOOR
           /\ Returned => \A p \in EdgeCells : tiles[p] = TILE_WALL

\* a returned dungeon with a room that starts in column or row 1 and a room
\* that ends in the last column or row a room may reach
C30_Witness ==
    /\ Returned
    /\ w >= args.room_max + 3 /\ h >= args.room_max + 3
    /\ args.room_min >= 3
    /\ \E k \in 1..Len(rooms) : rooms[k].x1 = 1 \/ rooms[k].y1 = 1
    /\ \E k \in 1..Len(rooms) : rooms[k].x2 = w - 1 \/ rooms[k].y2 = h - 1

=============================================================================
